---- MODULE Spec2Model ----
(***************************************************************************)
(* A model of the HFT server interface: the request-dispatch pipeline      *)
(* (CommandRegistry, TradingServerFacade, the concrete commands), the      *)
(* report template pipeline (BaseReport) and the framed TLS transport      *)
(* (BoostAsioSslTransport).                                                *)
(***************************************************************************)
EXTENDS Integers, Sequences, FiniteSets, TLC

VARIABLES
    \* ---- dispatch pipeline ----
    m_factories,     \* CommandRegistry::m_factories: RequestType -> factory
    facadeBuilt,     \* the registry has been moved into a TradingServerFacade
    nRegistered,     \* number of registerCommand calls made by the caller
    lastRegistered,  \* history: the factory most recently registered per key
    replaced,        \* history: the factory most recently displaced per key
    dispatch,        \* record of the most recent registry / facade call
    \* ---- report pipeline ----
    report,          \* record of the most recent BaseReport::generate call
    \* ---- transport ----
    m_running,       \* std::atomic<bool> m_running
    acceptor,        \* m_acceptor: "closed", "open" or "listening"
    m_workGuard,     \* the work guard still owns work
    ioStopped,       \* m_ioContext.stopped()
    m_ioThread,      \* "none", "running", "exited" (joinable) or "joined"
    workerPc,        \* position of the worker thread inside a handler
    wk,              \* the completion the worker is handling, its locals
    sock,            \* each SslSocket object: its state, its client, the
                     \* bytes in flight in both directions
    accepts,         \* sockets with an async_accept outstanding
    handshakes,      \* sockets with an async_handshake outstanding
    ready,           \* completed operations whose handlers await the worker
    m_activeSocket,  \* the session slot
    m_socketMutex,   \* owner of the session mutex
    appPc,           \* position of the application thread in start()/stop()
    appResult,       \* the application thread's last call and its outcome
    lifetime,        \* the transport object: "alive", "destructing", "destroyed"
    nStarts,         \* start() calls that went past the running check
    nConnects,       \* client connections made so far
    userPc,          \* position of the I/O caller in send()/receive()
    userBuf,         \* bytes send() still has to write
    userNeed,        \* payload bytes receive() still has to read
    userResult,      \* outcome of the I/O caller's last call
    \* ---- framing codec ----
    framing,         \* record of the most recent encode / decode round trip
    \* ---- one established session used by several callers ----
    sessionMutex,    \* m_socketMutex: "none" or the caller that owns it
    callers,         \* each calling thread: its position and its locals
    wire,            \* history: every byte written to the stream, in order
    lockOrder,       \* history: the buffers of send() calls, in lock order
    peerStream,      \* history: every byte the client has emitted, in order
    emitted,         \* history: the payloads the client has framed, in order
    delivered,       \* number of the client's bytes that have arrived
    consumed,        \* number of the client's bytes receive() has read
    returned,        \* history: the payloads receive() has returned, in order
    nCalls,          \* send() and receive() calls made so far
    \* ---- the server process (main.cpp) ----
    g_shutdown,      \* the atomic flag the signal handler sets
    mainReturn       \* "running", or the status main() has returned

dispatchVars ==
    <<m_factories, facadeBuilt, nRegistered, lastRegistered, replaced, dispatch>>
reportVars == <<report>>
transportVars ==
    <<m_running, acceptor, m_workGuard, ioStopped, m_ioThread, workerPc, wk, sock,
      accepts, handshakes, ready, m_activeSocket, m_socketMutex, appPc, appResult,
      lifetime, nStarts, nConnects, userPc, userBuf, userNeed, userResult>>
framingVars == <<framing>>
sessionVars ==
    <<sessionMutex, callers, wire, lockOrder, peerStream, emitted, delivered,
      consumed, returned, nCalls>>
mainVars == <<g_shutdown, mainReturn>>
nonDispatchVars == <<reportVars, transportVars, framingVars, sessionVars, mainVars>>
nonReportVars == <<dispatchVars, transportVars, framingVars, sessionVars, mainVars>>
nonTransportVars == <<dispatchVars, reportVars, framingVars, sessionVars, mainVars>>
nonFramingVars == <<dispatchVars, reportVars, transportVars, sessionVars, mainVars>>
nonSessionVars == <<dispatchVars, reportVars, transportVars, framingVars, mainVars>>
nonMainVars == <<dispatchVars, reportVars, transportVars, framingVars, sessionVars>>

(***************************************************************************)
(* Bounds                                                                  *)
(***************************************************************************)
\* registerCommand calls made one at a time by the caller.
MaxRegistrations == 2
\* Largest of the consecutive 32-bit values put through the header codec.
MaxWord == 300
\* Longest payload put through a frame round trip.
MaxPayloadLen == 2
\* send() and receive() calls made on one session.
MaxCalls == 4
\* Frames the client emits on one session.
MaxEmits == 2
\* start() calls that go past the running check.
MaxStarts == 2
\* Client connections the environment makes.
MaxConnects == 2
\* Bytes a client may have in flight towards the server on one connection.
MaxInbox == 5
\* Bytes the socket send buffer holds before a write blocks.
SendBufferSize == 5

(***************************************************************************)
(* RequestTypes.hpp, Request.hpp, Response.hpp, ReportRequest.hpp          *)
(***************************************************************************)
GET_MARKET_DATA == 0
CALCULATE == 1
MANIPULATE == 2
GENERATE_REPORT == 3

ListedRequestTypes == {GET_MARKET_DATA, CALCULATE, MANIPULATE, GENERATE_REPORT}
\* A value of the underlying uint32_t that the enumeration does not list.
UnlistedRequestType == GENERATE_REPORT + 1
RequestTypes == ListedRequestTypes \cup {UnlistedRequestType}

\* std::vector<uint8_t> payloads used as inputs.
Payloads == {<<>>, <<7>>}
Requests == [type : RequestTypes, payload : Payloads]

Response(success, message, data) ==
    [success |-> success, message |-> message, data |-> data]

\* Responses a service (or a caller-supplied command) may return.
ServiceResponses ==
    {Response(s, "ok", d) : s \in BOOLEAN, d \in Payloads}

(***************************************************************************)
(* Outcomes of a call: a normal return or a raised exception.              *)
(***************************************************************************)
Return(v) == [kind |-> "return", value |-> v]
Throw(e) == [kind |-> "throw", exc |-> e]
NotRun == [kind |-> "notrun"]

Exception(type, what) == [type |-> type, what |-> what]

\* Exception classes a command, factory or service may raise: the class the
\* registry itself raises, another class derived from std::exception, and a
\* type that does not derive from std::exception (throw 42).
RaisedExceptions ==
    {Exception("std::out_of_range", "vector::_M_range_check"),
     Exception("std::runtime_error", "boom"),
     Exception("int", "")}

\* catch (const std::out_of_range&) matches the class and what derives from it.
MatchesOutOfRange(e) == e.type = "std::out_of_range"
\* catch (const std::exception&) matches every class derived from it.
MatchesStdException(e) == e.type \in {"std::out_of_range", "std::runtime_error"}

\* What a service method, or a caller-supplied command, may do when called.
CallOutcomes ==
    {Return(r) : r \in ServiceResponses} \cup {Throw(e) : e \in RaisedExceptions}

(***************************************************************************)
(* Factories and commands                                                  *)
(***************************************************************************)
NoFactory == "NoFactory"
\* The four lambdas of main() and a caller-supplied CommandFactory (any
\* std::function, as the registry tests register).
MainFactories ==
    {"GetMarketDataFactory", "CalculationFactory", "ManipulationFactory",
     "ReportFactory"}
Factories == MainFactories \cup {"UserFactory"}

Services == {"marketData", "calculation", "manipulation", "report"}

\* The placeholder ReportRequest the GENERATE_REPORT lambda fabricates.
PlaceholderReportRequest ==
    [reportType |-> "EndOfDay", dateFrom |-> "2026-01-01", dateTo |-> "2026-12-31"]

Command(class, service, arg) == [class |-> class, service |-> service, arg |-> arg]

\* What a caller-supplied factory may do: build a command or raise.
UserFactoryOutcomes ==
    {Return(Command("UserCommand", "none", <<>>))}
        \cup {Throw(e) : e \in RaisedExceptions}

\* A GENERATE_REPORT lambda that fills the two dates the other way round.
InvokeFactorySwapsDates(f, request, userOutcome) ==
    CASE f = "GetMarketDataFactory" ->
            Return(Command("GetMarketDataCommand", "marketData", request))
      [] f = "CalculationFactory" ->
            Return(Command("CalculationCommand", "calculation", request))
      [] f = "ManipulationFactory" ->
            Return(Command("ManipulationCommand", "manipulation", request))
      [] f = "ReportFactory" ->
            Return(Command("ReportCommand", "report",
                           [PlaceholderReportRequest EXCEPT
                                !.dateFrom = PlaceholderReportRequest.dateTo,
                                !.dateTo = PlaceholderReportRequest.dateFrom]))
      [] OTHER -> userOutcome

\* Invoking factory f with the request; userOutcome is what a caller-supplied
\* factory does.  Allocation failure inside std::make_unique is not modelled.
InvokeFactory(f, request, userOutcome) ==
    CASE f = "GetMarketDataFactory" ->
            Return(Command("GetMarketDataCommand", "marketData", request))
      [] f = "CalculationFactory" ->
            Return(Command("CalculationCommand", "calculation", request))
      [] f = "ManipulationFactory" ->
            Return(Command("ManipulationCommand", "manipulation", request))
      [] f = "ReportFactory" ->
            Return(Command("ReportCommand", "report", PlaceholderReportRequest))
      [] OTHER -> userOutcome

ServiceCall(service, method, arg, outcome) ==
    [service |-> service, method |-> method, arg |-> arg, outcome |-> outcome]

\* ICommand::execute of each concrete command: the calls made into services
\* and the outcome; callOutcome is what the callee does.
ExecuteMissesService(command, callOutcome) ==
    [calls |-> <<>>, outcome |-> callOutcome]

Execute(command, callOutcome) ==
    CASE command.class = "GetMarketDataCommand" ->
            [calls |-> <<ServiceCall(command.service, "getData", command.arg,
                                     callOutcome)>>,
             outcome |-> callOutcome]
      [] command.class = "CalculationCommand" ->
            [calls |-> <<ServiceCall(command.service, "calculate", command.arg,
                                     callOutcome)>>,
             outcome |-> callOutcome]
      [] command.class = "ManipulationCommand" ->
            [calls |-> <<ServiceCall(command.service, "manipulate", command.arg,
                                     callOutcome)>>,
             outcome |-> callOutcome]
      [] command.class = "ReportCommand" ->
            [calls |-> <<ServiceCall(command.service, "generateReport",
                                     command.arg, callOutcome)>>,
             outcome |-> callOutcome]
      [] OTHER -> [calls |-> <<>>, outcome |-> callOutcome]

(***************************************************************************)
(* CommandRegistry                                                         *)
(***************************************************************************)
EmptyRegistry == [k \in RequestTypes |-> NoFactory]

\* A registration that drops the entries of the other opcodes.
RegisterClearsOthers(reg, type, factory) ==
    [k \in RequestTypes |-> IF k = type THEN factory ELSE NoFactory]

RegisterKeepsFirst(reg, type, factory) ==
    IF reg[type] = NoFactory THEN [reg EXCEPT ![type] = factory] ELSE reg

\* m_factories[type] = std::move(factory)
RegisterCommandMap(reg, type, factory) == [reg EXCEPT ![type] = factory]

FactoryCall(f, request) == [factory |-> f, request |-> request]

UnknownTypeWhat == "No command registered for the given RequestType"

CreateFallsBack(reg, request, userOutcome) ==
    LET f == IF reg[request.type] = NoFactory
             THEN "GetMarketDataFactory" ELSE reg[request.type]
    IN [outcome |-> InvokeFactory(f, request, userOutcome),
        factoryCalls |-> <<FactoryCall(f, request)>>]

\* CommandRegistry::create: find, throw std::out_of_range on a miss,
\* otherwise invoke the factory found.
Create(reg, request, userOutcome) ==
    IF reg[request.type] = NoFactory
    THEN [outcome |-> Throw(Exception("std::out_of_range", UnknownTypeWhat)),
          factoryCalls |-> <<>>]
    ELSE [outcome |-> InvokeFactory(reg[request.type], request, userOutcome),
          factoryCalls |-> <<FactoryCall(reg[request.type], request)>>]

(***************************************************************************)
(* TradingServerFacade::handleRequest                                      *)
(***************************************************************************)
FunnelStdExceptionFirst(raised) ==
    IF raised.kind = "return" THEN raised
    ELSE IF MatchesStdException(raised.exc)
    THEN Return(Response(FALSE, "Internal server error: " \o raised.exc.what, <<>>))
    ELSE raised

\* The two catch clauses, in order; an exception neither matches leaves
\* handleRequest.
Funnel(raised) ==
    IF raised.kind = "return" THEN raised
    ELSE IF MatchesOutOfRange(raised.exc)
    THEN Return(Response(FALSE, "Unknown request type: " \o raised.exc.what, <<>>))
    ELSE IF MatchesStdException(raised.exc)
    THEN Return(Response(FALSE, "Internal server error: " \o raised.exc.what, <<>>))
    ELSE raised

HandleRequestClearsData(reg, request, userOutcome, callOutcome) ==
    LET c == Create(reg, request, userOutcome)
        e == IF c.outcome.kind = "throw"
             THEN [calls |-> <<>>, outcome |-> c.outcome]
             ELSE Execute(c.outcome.value, callOutcome)
        r == Funnel(e.outcome)
    IN [created |-> c.outcome,
        executed |-> IF c.outcome.kind = "throw" THEN NotRun ELSE e.outcome,
        factoryCalls |-> c.factoryCalls,
        executeCalls |-> IF c.outcome.kind = "throw" THEN <<>>
                         ELSE <<c.outcome.value>>,
        serviceCalls |-> e.calls,
        outcome |-> IF r.kind = "return"
                    THEN Return([r.value EXCEPT !.data = <<>>]) ELSE r]

\* A facade that keeps the command of the previous call and executes it
\* again instead of the one just created.
HandleRequestReusesCommand(reg, request, userOutcome, callOutcome) ==
    LET c == Create(reg, request, userOutcome)
        kept == IF dispatch.op = "handleRequest" /\ dispatch.created.kind = "return"
                THEN dispatch.created.value ELSE c.outcome.value
        e == IF c.outcome.kind = "throw"
             THEN [calls |-> <<>>, outcome |-> c.outcome]
             ELSE Execute(kept, callOutcome)
    IN [created |-> c.outcome,
        executed |-> IF c.outcome.kind = "throw" THEN NotRun ELSE e.outcome,
        factoryCalls |-> c.factoryCalls,
        executeCalls |-> IF c.outcome.kind = "throw" THEN <<>> ELSE <<kept>>,
        serviceCalls |-> e.calls,
        outcome |-> Funnel(e.outcome)]

\* handleRequest: create the command for the request, execute it, and turn
\* what is raised into a Response.
HandleRequest(reg, request, userOutcome, callOutcome) ==
    LET c == Create(reg, request, userOutcome)
        e == IF c.outcome.kind = "throw"
             THEN [calls |-> <<>>, outcome |-> c.outcome]
             ELSE Execute(c.outcome.value, callOutcome)
    IN [created |-> c.outcome,
        executed |-> IF c.outcome.kind = "throw" THEN NotRun ELSE e.outcome,
        factoryCalls |-> c.factoryCalls,
        executeCalls |-> IF c.outcome.kind = "throw" THEN <<>>
                         ELSE <<c.outcome.value>>,
        serviceCalls |-> e.calls,
        outcome |-> Funnel(e.outcome)]

(***************************************************************************)
(* Dispatch actions                                                        *)
(***************************************************************************)
DispatchInit ==
    /\ m_factories = EmptyRegistry
    /\ facadeBuilt = FALSE
    /\ nRegistered = 0
    /\ lastRegistered = EmptyRegistry
    /\ replaced = EmptyRegistry
    /\ dispatch = [op |-> "none"]

\* One registerCommand call on the registry being populated.
RegisterCommand(type, factory) ==
    /\ ~facadeBuilt
    /\ nRegistered < MaxRegistrations
    /\ m_factories' = RegisterCommandMap(m_factories, type, factory)
    /\ nRegistered' = nRegistered + 1
    /\ lastRegistered' = [lastRegistered EXCEPT ![type] = factory]
    /\ replaced' = IF lastRegistered[type] = NoFactory THEN replaced
                   ELSE [replaced EXCEPT ![type] = lastRegistered[type]]
    /\ dispatch' = [op |-> "registerCommand"]
    /\ UNCHANGED <<facadeBuilt, nonDispatchVars>>

\* The registry population of main(): four registerCommand calls on a fresh
\* registry.
MainRegistry ==
    RegisterCommandMap(
        RegisterCommandMap(
            RegisterCommandMap(
                RegisterCommandMap(EmptyRegistry,
                                   GET_MARKET_DATA, "GetMarketDataFactory"),
                CALCULATE, "CalculationFactory"),
            MANIPULATE, "ManipulationFactory"),
        GENERATE_REPORT, "ReportFactory")

\* main(): populate a fresh registry and move it into the facade.
MainBootstrap ==
    /\ ~facadeBuilt
    /\ nRegistered = 0
    /\ m_factories = EmptyRegistry
    /\ m_factories' = MainRegistry
    /\ lastRegistered' =
           [k \in RequestTypes |->
               CASE k = GET_MARKET_DATA -> "GetMarketDataFactory"
                 [] k = CALCULATE -> "CalculationFactory"
                 [] k = MANIPULATE -> "ManipulationFactory"
                 [] k = GENERATE_REPORT -> "ReportFactory"
                 [] OTHER -> NoFactory]
    /\ facadeBuilt' = TRUE
    /\ dispatch' = [op |-> "mainBootstrap"]
    /\ UNCHANGED <<nRegistered, replaced, nonDispatchVars>>

\* The TradingServerFacade constructor takes the registry by value.
BuildFacade ==
    /\ ~facadeBuilt
    /\ facadeBuilt' = TRUE
    /\ dispatch' = [op |-> "buildFacade"]
    /\ UNCHANGED <<m_factories, nRegistered, lastRegistered, replaced,
                   nonDispatchVars>>

\* A direct CommandRegistry::create call on the registry being populated.
CreateCall(request, userOutcome) ==
    /\ ~facadeBuilt
    /\ dispatch' =
           LET c == Create(m_factories, request, userOutcome)
           IN [op |-> "create", request |-> request, created |-> c.outcome,
               factoryCalls |-> c.factoryCalls]
    /\ UNCHANGED <<m_factories, facadeBuilt, nRegistered, lastRegistered,
                   replaced, nonDispatchVars>>

\* One TradingServerFacade::handleRequest call.
HandleRequestCall(request, userOutcome, callOutcome) ==
    /\ facadeBuilt
    /\ dispatch' = [op |-> "handleRequest", request |-> request]
                       @@ HandleRequest(m_factories, request, userOutcome,
                                        callOutcome)
    /\ UNCHANGED <<m_factories, facadeBuilt, nRegistered, lastRegistered,
                   replaced, nonDispatchVars>>

\* The environment's choices that a call on this registry can observe: what
\* a caller-supplied factory does, and what the callee of execute() does.
UserOutcomesFor(request) ==
    IF m_factories[request.type] = "UserFactory"
    THEN UserFactoryOutcomes ELSE {NotRun}

CallOutcomesFor(request, userOutcome) ==
    IF Create(m_factories, request, userOutcome).outcome.kind = "return"
    THEN CallOutcomes ELSE {NotRun}

NextDispatch ==
    \/ \E type \in RequestTypes, factory \in Factories :
           RegisterCommand(type, factory)
    \/ MainBootstrap
    \/ BuildFacade
    \/ \E request \in Requests :
         \E userOutcome \in UserOutcomesFor(request) :
           CreateCall(request, userOutcome)
    \/ \E request \in Requests :
         \E userOutcome \in UserOutcomesFor(request) :
          \E callOutcome \in CallOutcomesFor(request, userOutcome) :
           HandleRequestCall(request, userOutcome, callOutcome)

(***************************************************************************)
(* BaseReport::generate and EndOfDayReport                                 *)
(***************************************************************************)
ReportRequests ==
    {[reportType |-> "EndOfDay", dateFrom |-> "2024-01-01", dateTo |-> "2024-01-31"],
     [reportType |-> "Blotter", dateFrom |-> "2024-01-01", dateTo |-> "2024-01-01"]}

\* std::vector<std::string> values a step may return.
ReportDatas == {<<>>, <<"raw1", "raw2">>, <<"computed1">>}

\* What an overriding step may do: return rows or raise.
StepOutcomes ==
    {Return(d) : d \in ReportDatas} \cup {Throw(e) : e \in RaisedExceptions}

\* Report classes: the concrete EndOfDayReport and any other subclass.
ReportClasses == {"EndOfDayReport", "OtherReport"}

\* EndOfDayReport's three steps return an empty collection; the steps of
\* another subclass do what the subclass decides.
StepOutcome(class, stepOutcome) ==
    IF class = "EndOfDayReport" THEN Return(<<>>) ELSE stepOutcome

StepCall(step, arg, outcome) == [step |-> step, arg |-> arg, outcome |-> outcome]

GenerateFormatsRaw(class, request, fetched, computed, formatted) ==
    LET f == StepOutcome(class, fetched)
        c == StepOutcome(class, computed)
        m == StepOutcome(class, formatted)
        c1 == <<StepCall("fetchData", request, f)>>
    IN IF f.kind = "throw" THEN [calls |-> c1, outcome |-> f]
       ELSE LET c2 == Append(c1, StepCall("computeReport", f.value, c))
            IN IF c.kind = "throw" THEN [calls |-> c2, outcome |-> c]
               ELSE [calls |-> Append(c2, StepCall("format", f.value, m)),
                     outcome |-> m]

\* BaseReport::generate: the calls it makes, in order, and its outcome.  An
\* exception raised by a step leaves generate at once.
Generate(class, request, fetched, computed, formatted) ==
    LET f == StepOutcome(class, fetched)
        c == StepOutcome(class, computed)
        m == StepOutcome(class, formatted)
        c1 == <<StepCall("fetchData", request, f)>>
    IN IF f.kind = "throw" THEN [calls |-> c1, outcome |-> f]
       ELSE LET rawData == f.value
                c2 == Append(c1, StepCall("computeReport", rawData, c))
            IN IF c.kind = "throw" THEN [calls |-> c2, outcome |-> c]
               ELSE LET computedData == c.value
                    IN [calls |-> Append(c2, StepCall("format", computedData, m)),
                        outcome |-> m]

ReportInit == report = [op |-> "none"]

\* One BaseReport::generate call on a report of the given class.
GenerateCall(class, request, fetched, computed, formatted) ==
    /\ report' = [op |-> "generate", class |-> class, request |-> request]
                     @@ Generate(class, request, fetched, computed, formatted)
    /\ UNCHANGED nonReportVars

NextReport ==
    \E class \in ReportClasses, request \in ReportRequests,
       fetched \in StepOutcomes, computed \in StepOutcomes,
       formatted \in StepOutcomes :
        GenerateCall(class, request, fetched, computed, formatted)

(***************************************************************************)
(* BoostAsioSslTransport: framing helpers, sockets, completions            *)
(***************************************************************************)
\* Encode a 32-bit value as 4 big-endian bytes.
encodeBE32(value) ==
    <<(value \div 16777216) % 256, (value \div 65536) % 256,
      (value \div 256) % 256, value % 256>>

\* A decoder that takes the bytes in little-endian order.
decodeLE32(bytes) ==
    bytes[4] * 16777216 + bytes[3] * 65536 + bytes[2] * 256 + bytes[1]

\* Decode 4 big-endian bytes into a 32-bit value.
decodeBE32(bytes) ==
    bytes[1] * 16777216 + bytes[2] * 65536 + bytes[3] * 256 + bytes[4]

\* The frame send() writes for a buffer: header, then payload.
Frame(buffer) == encodeBE32(Len(buffer)) \o buffer

\* Buffers the caller passes to send().
SendBuffers == {<<>>, <<7>>}

\* The configured upper bound of a payload length (default 16 MiB).
MAX_FRAME == 16777216

\* What a client may put on the wire in one go: whole frames, a piece of a
\* header, and a header that advertises MAX_FRAME + 1 bytes.
PeerChunks == {Frame(<<>>), Frame(<<7>>), <<0, 0>>, encodeBE32(MAX_FRAME + 1)}

NumSockets == MaxConnects + 2
SockIds == 1..NumSockets
\* An empty std::shared_ptr<SslSocket>.
NoSocket == 0

\* No SslSocket object.
FreeSocket == [state |-> "free", peer |-> "live", inbox |-> <<>>, outbox |-> <<>>]
\* make_shared<SslSocket>: an object without a connection yet.
NewSocket == [FreeSocket EXCEPT !.state = "created"]

\* The lowest free identity, for the next make_shared<SslSocket>.
FreshSock(sk) ==
    CHOOSE i \in SockIds :
        /\ sk[i].state = "free"
        /\ \A j \in SockIds : sk[j].state = "free" => i <= j

HasDescriptor(state) == state \in {"connected", "established", "failed"}

\* A completed asynchronous operation and its error code.
Completion(kind, s, ec) == [kind |-> kind, sock |-> s, ec |-> ec]
NoCompletion == [kind |-> "none", sock |-> NoSocket, ec |-> "ok", running |-> FALSE]

NoResult == [status |-> "none", payload |-> <<>>]
Result(status, payload) == [status |-> status, payload |-> payload]

\* acceptNextConnection(): a new socket object and an async_accept on the
\* acceptor; on an acceptor that is not listening the operation completes at
\* once with an error.
acceptNextConnection(sk, acc, rdy, acptr) ==
    LET s == FreshSock(sk)
    IN IF acptr = "listening"
       THEN [sock |-> [sk EXCEPT ![s] = NewSocket],
             accepts |-> acc \cup {s},
             ready |-> rdy]
       ELSE [sock |-> [sk EXCEPT ![s] = NewSocket],
             accepts |-> acc,
             ready |-> rdy \cup {Completion("accept", s, "error")}]

TransportInit ==
    /\ m_running = FALSE
    /\ acceptor = "closed"
    /\ m_workGuard = TRUE
    /\ ioStopped = FALSE
    /\ m_ioThread = "none"
    /\ workerPc = "idle"
    /\ wk = NoCompletion
    /\ sock = [i \in SockIds |-> FreeSocket]
    /\ accepts = {}
    /\ handshakes = {}
    /\ ready = {}
    /\ m_activeSocket = NoSocket
    /\ m_socketMutex = "none"
    /\ appPc = "idle"
    /\ appResult = "none"
    /\ lifetime = "alive"
    /\ nStarts = 0
    /\ nConnects = 0
    /\ userPc = "idle"
    /\ userBuf = <<>>
    /\ userNeed = 0
    /\ userResult = NoResult

workerVars == <<m_ioThread, workerPc, wk>>
userVars == <<userPc, userBuf, userNeed, userResult>>
asyncVars == <<sock, accepts, handshakes, ready>>

(***************************************************************************)
(* The application thread: start(), stop(), the destructor                 *)
(***************************************************************************)
\* A start() that lacks the early return and arms an accept again.
StartWhileRunningRearms ==
    /\ appPc = "idle" /\ lifetime = "alive"
    /\ m_running
    /\ appResult' = "start_noop"
    /\ LET a == acceptNextConnection(sock, accepts, ready, acceptor)
       IN /\ sock' = a.sock
          /\ accepts' = a.accepts
          /\ ready' = a.ready
    /\ UNCHANGED <<m_running, acceptor, m_workGuard, ioStopped, workerVars,
                   handshakes, m_activeSocket, m_socketMutex, appPc, lifetime,
                   nStarts, nConnects, userVars, nonTransportVars>>

\* start() while m_running is already true: exchange(true) returns true.
StartWhileRunning ==
    /\ appPc = "idle" /\ lifetime = "alive"
    /\ m_running
    /\ appResult' = "start_noop"
    /\ UNCHANGED <<m_running, acceptor, m_workGuard, ioStopped, workerVars,
                   asyncVars, m_activeSocket, m_socketMutex, appPc, lifetime,
                   nStarts, nConnects, userVars, nonTransportVars>>

\* A start() that restarts the io_context and takes a new work guard before
\* it launches the worker.
StartRestartsIoContext(failAt) ==
    /\ appPc = "idle" /\ lifetime = "alive"
    /\ ~m_running
    /\ nStarts < MaxStarts
    /\ m_running' = TRUE
    /\ nStarts' = nStarts + 1
    /\ IF failAt \in {"make_address", "open"} \/ acceptor # "closed"
       THEN /\ appResult' = "start_threw"
            /\ UNCHANGED <<acceptor, workerVars, asyncVars, m_workGuard, ioStopped>>
       ELSE IF failAt \in {"bind", "listen"}
       THEN /\ appResult' = "start_threw"
            /\ acceptor' = "open"
            /\ UNCHANGED <<workerVars, asyncVars, m_workGuard, ioStopped>>
       ELSE LET a == acceptNextConnection(sock, accepts, ready, "listening")
            IN /\ appResult' = "start_ok"
               /\ acceptor' = "listening"
               /\ sock' = a.sock
               /\ accepts' = a.accepts
               /\ ready' = a.ready
               /\ m_ioThread' = "running"
               /\ workerPc' = "idle"
               /\ m_workGuard' = TRUE
               /\ ioStopped' = FALSE
               /\ UNCHANGED <<wk, handshakes>>
    /\ UNCHANGED <<m_activeSocket, m_socketMutex, appPc,
                   lifetime, nConnects, userVars, nonTransportVars>>

\* A start() that clears the flag again when one of its calls raises.
StartResetsFlagOnFailure(failAt) ==
    /\ appPc = "idle" /\ lifetime = "alive"
    /\ ~m_running
    /\ nStarts < MaxStarts
    /\ nStarts' = nStarts + 1
    /\ IF failAt \in {"make_address", "open"} \/ acceptor # "closed"
       THEN /\ appResult' = "start_threw"
            /\ UNCHANGED <<m_running, acceptor, workerVars, asyncVars>>
       ELSE IF failAt \in {"bind", "listen"}
       THEN /\ appResult' = "start_threw"
            /\ acceptor' = "open"
            /\ UNCHANGED <<m_running, workerVars, asyncVars>>
       ELSE LET a == acceptNextConnection(sock, accepts, ready, "listening")
            IN /\ appResult' = "start_ok"
               /\ m_running' = TRUE
               /\ acceptor' = "listening"
               /\ sock' = a.sock
               /\ accepts' = a.accepts
               /\ ready' = a.ready
               /\ m_ioThread' = "running"
               /\ workerPc' = "idle"
               /\ UNCHANGED <<wk, handshakes>>
    /\ UNCHANGED <<m_workGuard, ioStopped, m_activeSocket, m_socketMutex, appPc,
                   lifetime, nConnects, userVars, nonTransportVars>>

\* start() from not running.  failAt names the call that raises, if any:
\* make_address, open, bind or listen; the exception leaves start().
Start(failAt) ==
    /\ appPc = "idle" /\ lifetime = "alive"
    /\ ~m_running
    /\ nStarts < MaxStarts
    /\ m_running' = TRUE
    /\ nStarts' = nStarts + 1
    /\ IF failAt \in {"make_address", "open"} \/ acceptor # "closed"
       THEN /\ appResult' = "start_threw"
            /\ UNCHANGED <<acceptor, workerVars, asyncVars>>
       ELSE IF failAt \in {"bind", "listen"}
       THEN /\ appResult' = "start_threw"
            /\ acceptor' = "open"
            /\ UNCHANGED <<workerVars, asyncVars>>
       ELSE LET a == acceptNextConnection(sock, accepts, ready, "listening")
            IN /\ appResult' = "start_ok"
               /\ acceptor' = "listening"
               /\ sock' = a.sock
               /\ accepts' = a.accepts
               /\ ready' = a.ready
               /\ m_ioThread' = "running"
               /\ workerPc' = "idle"
               /\ UNCHANGED <<wk, handshakes>>
    /\ UNCHANGED <<m_workGuard, ioStopped, m_activeSocket, m_socketMutex, appPc,
                   lifetime, nConnects, userVars, nonTransportVars>>

\* stop() while m_running is false: exchange(false) returns false.
StopWhileStopped ==
    /\ appPc = "idle" /\ lifetime = "alive"
    /\ ~m_running
    /\ appResult' = "stop_noop"
    /\ UNCHANGED <<m_running, acceptor, m_workGuard, ioStopped, workerVars,
                   asyncVars, m_activeSocket, m_socketMutex, appPc, lifetime,
                   nStarts, nConnects, userVars, nonTransportVars>>

\* stop() called directly (fromDestructor = FALSE) or by ~BoostAsioSslTransport
\* while running: m_running.exchange(false) returned true.
StopCall(fromDestructor) ==
    /\ appPc = "idle" /\ lifetime = "alive"
    /\ m_running
    /\ m_running' = FALSE
    /\ appPc' = "stop_close"
    /\ appResult' = "none"
    /\ lifetime' = IF fromDestructor THEN "destructing" ELSE lifetime
    /\ UNCHANGED <<acceptor, m_workGuard, ioStopped, workerVars, asyncVars,
                   m_activeSocket, m_socketMutex, nStarts, nConnects, userVars,
                   nonTransportVars>>

\* m_acceptor.close(ec): every outstanding accept completes with
\* operation_aborted.
StopCloseAcceptor ==
    /\ appPc = "stop_close"
    /\ acceptor' = "closed"
    /\ ready' = ready \cup {Completion("accept", s, "aborted") : s \in accepts}
    /\ accepts' = {}
    /\ appPc' = "stop_lock"
    /\ UNCHANGED <<m_running, m_workGuard, ioStopped, workerVars, sock, handshakes,
                   m_activeSocket, m_socketMutex, appResult, lifetime, nStarts,
                   nConnects, userVars, nonTransportVars>>

\* A socket whose descriptor is closed; the object lives on while a handler
\* still holds a reference to it.
ClosedBy(sk, s, stillReferenced) ==
    [sk EXCEPT ![s] = IF stillReferenced
                      THEN [FreeSocket EXCEPT !.state = "closed"]
                      ELSE FreeSocket]

\* The block under std::lock_guard in stop(): waits for the mutex, then
\* cancels, closes and resets the active socket if there is one.
StopTeardown ==
    /\ appPc = "stop_lock"
    /\ m_socketMutex = "none"
    /\ IF m_activeSocket # NoSocket
       THEN /\ sock' = ClosedBy(sock, m_activeSocket,
                                wk.kind # "none" /\ wk.sock = m_activeSocket)
            /\ m_activeSocket' = NoSocket
       ELSE UNCHANGED <<sock, m_activeSocket>>
    /\ appPc' = "stop_io"
    /\ UNCHANGED <<m_running, acceptor, m_workGuard, ioStopped, workerVars,
                   accepts, handshakes, ready, m_socketMutex, appResult, lifetime,
                   nStarts, nConnects, userVars, nonTransportVars>>

\* m_workGuard.reset(); m_ioContext.stop();
StopIoContext ==
    /\ appPc = "stop_io"
    /\ m_workGuard' = FALSE
    /\ ioStopped' = TRUE
    /\ appPc' = "stop_join"
    /\ UNCHANGED <<m_running, acceptor, workerVars, asyncVars, m_activeSocket,
                   m_socketMutex, appResult, lifetime, nStarts, nConnects,
                   userVars, nonTransportVars>>

\* if (m_ioThread.joinable()) m_ioThread.join(): waits for the worker to leave
\* run().  A stop() run by the destructor is followed by the destruction of
\* the members: the io_context drops the handlers and operations it still
\* holds, and with them their sockets.  A send() or receive() still inside
\* the object at that moment has undefined behaviour ("undefined": nothing
\* is known of that call from then on).
StopJoin ==
    /\ appPc = "stop_join"
    /\ m_ioThread # "running"
    /\ m_ioThread' = IF m_ioThread = "exited" THEN "joined" ELSE m_ioThread
    /\ appPc' = "idle"
    /\ appResult' = "stop_ok"
    /\ IF lifetime = "destructing"
       THEN /\ lifetime' = "destroyed"
            /\ sock' = [i \in SockIds |-> FreeSocket]
            /\ accepts' = {}
            /\ handshakes' = {}
            /\ ready' = {}
            /\ m_activeSocket' = NoSocket
            /\ m_socketMutex' = "none"
            /\ userPc' = IF userPc = "idle" THEN "idle" ELSE "undefined"
       ELSE UNCHANGED <<lifetime, asyncVars, m_activeSocket, m_socketMutex, userPc>>
    /\ UNCHANGED <<m_running, acceptor, m_workGuard, ioStopped, workerPc, wk,
                   nStarts, nConnects, userBuf, userNeed, userResult,
                   nonTransportVars>>

\* The destructor of a transport that is not running: stop() returns at once.
DestroyStopped ==
    /\ appPc = "idle" /\ lifetime = "alive"
    /\ ~m_running
    /\ userPc = "idle"
    /\ lifetime' = "destroyed"
    /\ sock' = [i \in SockIds |-> FreeSocket]
    /\ accepts' = {}
    /\ handshakes' = {}
    /\ ready' = {}
    /\ m_activeSocket' = NoSocket
    /\ UNCHANGED <<m_running, acceptor, m_workGuard, ioStopped, workerVars,
                   m_socketMutex, appPc, appResult, nStarts, nConnects, userVars,
                   nonTransportVars>>

(***************************************************************************)
(* The worker thread: m_ioContext.run() and the completion handlers        *)
(***************************************************************************)
Reactor == m_ioThread = "running" /\ ~ioStopped

\* The handler's reference to its socket goes away when the handler ends:
\* the object is destroyed (and its descriptor closed) unless it is the
\* active socket.
ReleasedBy(sk, s, active) ==
    IF s = active THEN sk ELSE [sk EXCEPT ![s] = FreeSocket]

\* An accept handler that arms the next accept itself, before the handshake.
AcceptHandlerRearms(h, raises) ==
    /\ Reactor /\ workerPc = "idle"
    /\ h \in ready /\ h.kind = "accept"
    /\ ~raises
    /\ LET a == IF h.ec = "ok"
                THEN acceptNextConnection(sock, accepts, ready \ {h}, acceptor)
                ELSE [sock |-> [sock EXCEPT ![h.sock] = FreeSocket],
                      accepts |-> accepts, ready |-> ready \ {h}]
       IN /\ sock' = a.sock
          /\ accepts' = a.accepts
          /\ ready' = a.ready
    /\ handshakes' = IF h.ec = "ok" THEN handshakes \cup {h.sock} ELSE handshakes
    /\ UNCHANGED <<m_running, acceptor, m_workGuard, ioStopped, workerVars,
                   m_activeSocket, m_socketMutex, appPc, appResult,
                   lifetime, nStarts, nConnects, userVars, nonTransportVars>>

\* An accept handler that promotes the accepted stream before its handshake.
AcceptHandlerPromotes(h, raises) ==
    /\ Reactor /\ workerPc = "idle"
    /\ h \in ready /\ h.kind = "accept"
    /\ ~raises
    /\ ready' = ready \ {h}
    /\ IF h.ec # "ok"
       THEN /\ sock' = [sock EXCEPT ![h.sock] = FreeSocket]
            /\ UNCHANGED <<handshakes, m_activeSocket>>
       ELSE /\ handshakes' = handshakes \cup {h.sock}
            /\ m_activeSocket' = h.sock
            /\ sock' = IF m_activeSocket \in SockIds \ {h.sock}
                       THEN [sock EXCEPT ![m_activeSocket] = FreeSocket]
                       ELSE sock
    /\ UNCHANGED <<m_running, acceptor, m_workGuard, ioStopped, workerVars,
                   accepts, m_socketMutex, appPc, appResult,
                   lifetime, nStarts, nConnects, userVars, nonTransportVars>>

\* The async_accept completion handler (the lambda of acceptNextConnection).
\* A cancelled or failed accept returns without re-arming.  After a
\* successful accept, remote_endpoint() or set_option() raises when the
\* client is already gone (raises = TRUE): the exception leaves run() and is
\* caught by the thread function, which then ends.  Otherwise doHandshake
\* starts the asynchronous handshake.
AcceptHandler(h, raises) ==
    /\ Reactor /\ workerPc = "idle"
    /\ h \in ready /\ h.kind = "accept"
    /\ raises => (h.ec = "ok" /\ sock[h.sock].peer = "closed")
    /\ ready' = ready \ {h}
    /\ IF h.ec # "ok"
       THEN /\ sock' = [sock EXCEPT ![h.sock] = FreeSocket]
            /\ UNCHANGED <<handshakes, m_ioThread>>
       ELSE IF raises
       THEN /\ sock' = [sock EXCEPT ![h.sock] = FreeSocket]
            /\ m_ioThread' = "exited"
            /\ UNCHANGED handshakes
       ELSE /\ handshakes' = handshakes \cup {h.sock}
            /\ UNCHANGED <<sock, m_ioThread>>
    /\ UNCHANGED <<m_running, acceptor, m_workGuard, ioStopped, workerPc, wk,
                   accepts, m_activeSocket, m_socketMutex, appPc, appResult,
                   lifetime, nStarts, nConnects, userVars, nonTransportVars>>

\* A handshake handler that promotes the stream whatever the error code.
HandshakeHandlerIgnoresError(h) ==
    /\ Reactor /\ workerPc = "idle"
    /\ h \in ready /\ h.kind = "handshake"
    /\ ready' = ready \ {h}
    /\ wk' = [kind |-> h.kind, sock |-> h.sock, ec |-> h.ec, running |-> FALSE]
    /\ workerPc' = "hs_lock"
    /\ UNCHANGED <<m_running, acceptor, m_workGuard, ioStopped, m_ioThread, sock,
                   accepts, handshakes, m_activeSocket, m_socketMutex, appPc,
                   appResult, lifetime, nStarts, nConnects, userVars,
                   nonTransportVars>>

\* The async_handshake completion handler begins: on an error it logs and
\* goes to the running check; on success it goes for the session mutex.
HandshakeHandler(h) ==
    /\ Reactor /\ workerPc = "idle"
    /\ h \in ready /\ h.kind = "handshake"
    /\ ready' = ready \ {h}
    /\ wk' = [kind |-> h.kind, sock |-> h.sock, ec |-> h.ec, running |-> FALSE]
    /\ workerPc' = IF h.ec = "ok" THEN "hs_lock" ELSE "hs_check"
    /\ UNCHANGED <<m_running, acceptor, m_workGuard, ioStopped, m_ioThread, sock,
                   accepts, handshakes, m_activeSocket, m_socketMutex, appPc,
                   appResult, lifetime, nStarts, nConnects, userVars,
                   nonTransportVars>>

\* A handler that writes the session slot without taking the mutex.
HandshakeInstallWithoutLock ==
    /\ workerPc = "hs_lock"
    /\ m_activeSocket' = wk.sock
    /\ sock' = IF m_activeSocket \in SockIds \ {wk.sock}
               THEN [sock EXCEPT ![m_activeSocket] = FreeSocket]
               ELSE sock
    /\ workerPc' = "hs_check"
    /\ UNCHANGED <<m_running, acceptor, m_workGuard, ioStopped, m_ioThread, wk,
                   accepts, handshakes, ready, m_socketMutex, appPc, appResult,
                   lifetime, nStarts, nConnects, userVars, nonTransportVars>>

\* A handler that leaves a session that is already there in place.
HandshakeInstallKeepsCurrent ==
    /\ workerPc = "hs_lock"
    /\ m_socketMutex = "none"
    /\ m_activeSocket' = IF m_activeSocket = NoSocket THEN wk.sock ELSE m_activeSocket
    /\ workerPc' = "hs_check"
    /\ UNCHANGED <<m_running, acceptor, m_workGuard, ioStopped, m_ioThread, wk,
                   asyncVars, m_socketMutex, appPc, appResult,
                   lifetime, nStarts, nConnects, userVars, nonTransportVars>>

\* { lock_guard lock(m_socketMutex); m_activeSocket = socket; }: waits for
\* the mutex; the socket previously in the slot loses its last reference.
HandshakeInstall ==
    /\ workerPc = "hs_lock"
    /\ m_socketMutex = "none"
    /\ m_activeSocket' = wk.sock
    /\ sock' = IF m_activeSocket \in SockIds \ {wk.sock}
               THEN [sock EXCEPT ![m_activeSocket] = FreeSocket]
               ELSE sock
    /\ workerPc' = "hs_check"
    /\ UNCHANGED <<m_running, acceptor, m_workGuard, ioStopped, m_ioThread, wk,
                   accepts, handshakes, ready, m_socketMutex, appPc, appResult,
                   lifetime, nStarts, nConnects, userVars, nonTransportVars>>

\* if (m_running): the load of the atomic flag.
HandshakeCheckRunning ==
    /\ workerPc = "hs_check"
    /\ wk' = [wk EXCEPT !.running = m_running]
    /\ workerPc' = "hs_accept"
    /\ UNCHANGED <<m_running, acceptor, m_workGuard, ioStopped, m_ioThread,
                   asyncVars, m_activeSocket, m_socketMutex, appPc, appResult,
                   lifetime, nStarts, nConnects, userVars, nonTransportVars>>

\* acceptNextConnection() if the flag was read true; the handler then ends.
HandshakeRearm ==
    /\ workerPc = "hs_accept"
    /\ LET a == IF wk.running
                THEN acceptNextConnection(sock, accepts, ready, acceptor)
                ELSE [sock |-> sock, accepts |-> accepts, ready |-> ready]
       IN /\ sock' = ReleasedBy(a.sock, wk.sock, m_activeSocket)
          /\ accepts' = a.accepts
          /\ ready' = a.ready
    /\ workerPc' = "idle"
    /\ wk' = NoCompletion
    /\ UNCHANGED <<m_running, acceptor, m_workGuard, ioStopped, m_ioThread,
                   handshakes, m_activeSocket, m_socketMutex, appPc, appResult,
                   lifetime, nStarts, nConnects, userVars, nonTransportVars>>

\* run() returns: the io_context was stopped, or it has run out of work.
WorkerExit ==
    /\ m_ioThread = "running" /\ workerPc = "idle"
    /\ \/ ioStopped
       \/ ~m_workGuard /\ accepts = {} /\ handshakes = {} /\ ready = {}
    /\ m_ioThread' = "exited"
    /\ UNCHANGED <<m_running, acceptor, m_workGuard, ioStopped, workerPc, wk,
                   asyncVars, m_activeSocket, m_socketMutex, appPc, appResult,
                   lifetime, nStarts, nConnects, userVars, nonTransportVars>>

(***************************************************************************)
(* The environment: clients and the operating system                       *)
(***************************************************************************)
envUnchanged ==
    UNCHANGED <<m_running, acceptor, m_workGuard, ioStopped, workerVars,
                m_activeSocket, m_socketMutex, appPc, appResult, lifetime,
                nStarts, userVars, nonTransportVars>>

\* A client connects: the outstanding accept completes successfully.
PeerConnect(s) ==
    /\ Reactor
    /\ s \in accepts
    /\ nConnects < MaxConnects
    /\ nConnects' = nConnects + 1
    /\ accepts' = accepts \ {s}
    /\ sock' = [sock EXCEPT ![s].state = "connected"]
    /\ ready' = ready \cup {Completion("accept", s, "ok")}
    /\ UNCHANGED handshakes
    /\ envUnchanged

\* The outstanding accept fails with an error other than operation_aborted.
AcceptFails(s) ==
    /\ Reactor
    /\ s \in accepts
    /\ accepts' = accepts \ {s}
    /\ ready' = ready \cup {Completion("accept", s, "error")}
    /\ UNCHANGED <<sock, handshakes, nConnects>>
    /\ envUnchanged

\* The TLS handshake of a connection completes, successfully or not; with
\* a client that has gone it fails.
PeerHandshake(s, ok) ==
    /\ Reactor
    /\ s \in handshakes
    /\ sock[s].peer # "silent"
    /\ ok => sock[s].peer = "live"
    /\ handshakes' = handshakes \ {s}
    /\ sock' = [sock EXCEPT ![s].state = IF ok THEN "established" ELSE "failed"]
    /\ ready' = ready \cup {Completion("handshake", s, IF ok THEN "ok" ELSE "error")}
    /\ UNCHANGED <<accepts, nConnects>>
    /\ envUnchanged

\* The client of the active session sends bytes.  (Only the active session
\* is ever read, so bytes sent on a stream before it is promoted are taken
\* to arrive once it is.)
PeerSend(s, chunk) ==
    /\ s = m_activeSocket
    /\ sock[s].state = "established" /\ sock[s].peer = "live"
    /\ Len(sock[s].inbox) + Len(chunk) <= MaxInbox
    /\ sock' = [sock EXCEPT ![s].inbox = @ \o chunk]
    /\ UNCHANGED <<accepts, handshakes, ready, nConnects>>
    /\ envUnchanged

\* The client takes the bytes the server has written.
PeerTake(s) ==
    /\ sock[s].state = "established" /\ sock[s].peer = "live"
    /\ sock[s].outbox # <<>>
    /\ sock' = [sock EXCEPT ![s].outbox = <<>>]
    /\ UNCHANGED <<accepts, handshakes, ready, nConnects>>
    /\ envUnchanged

\* The client closes or resets its end of the connection.
PeerClose(s) ==
    /\ sock[s].state \in {"connected", "established"} /\ sock[s].peer = "live"
    /\ sock' = [sock EXCEPT ![s].peer = "closed"]
    /\ UNCHANGED <<accepts, handshakes, ready, nConnects>>
    /\ envUnchanged

\* The client hangs: from now on it neither sends, nor takes, nor closes.
PeerGoesSilent(s) ==
    /\ sock[s].state \in {"connected", "established"} /\ sock[s].peer = "live"
    /\ sock' = [sock EXCEPT ![s].peer = "silent"]
    /\ UNCHANGED <<accepts, handshakes, ready, nConnects>>
    /\ envUnchanged

(***************************************************************************)
(* The caller's thread: send() and receive()                               *)
(***************************************************************************)
userUnchanged ==
    UNCHANGED <<m_running, acceptor, m_workGuard, ioStopped, workerVars,
                accepts, handshakes, ready, m_activeSocket, appPc, appResult,
                lifetime, nStarts, nConnects, nonTransportVars>>

\* The bytes a blocking read or write can still move on socket s: none once
\* the descriptor is closed or the client has gone (the call then fails).
Broken(s) == sock[s].state # "established" \/ sock[s].peer = "closed"

\* receive() is called.
ReceiveCall ==
    /\ userPc = "idle" /\ lifetime = "alive"
    /\ userPc' = "recv_lock"
    /\ userResult' = NoResult
    /\ UNCHANGED <<userBuf, userNeed, sock, m_socketMutex>>
    /\ userUnchanged

\* A receive() that reports an empty session slot as an I/O failure.
ReceiveEnterReportsIoError ==
    /\ userPc = "recv_lock"
    /\ m_socketMutex = "none"
    /\ IF m_activeSocket = NoSocket
       THEN /\ userResult' = Result("IoError", <<>>)
            /\ userPc' = "idle"
            /\ UNCHANGED m_socketMutex
       ELSE /\ m_socketMutex' = "user"
            /\ userPc' = "recv_header"
            /\ UNCHANGED userResult
    /\ UNCHANGED <<userBuf, userNeed, sock>>
    /\ userUnchanged

\* std::lock_guard lock(m_socketMutex); if (!m_activeSocket) throw.
ReceiveEnter ==
    /\ userPc = "recv_lock"
    /\ m_socketMutex = "none"
    /\ IF m_activeSocket = NoSocket
       THEN /\ userResult' = Result("NotConnected", <<>>)
            /\ userPc' = "idle"
            /\ UNCHANGED m_socketMutex
       ELSE /\ m_socketMutex' = "user"
            /\ userPc' = "recv_header"
            /\ UNCHANGED userResult
    /\ UNCHANGED <<userBuf, userNeed, sock>>
    /\ userUnchanged

\* boost::asio::read of the 4 header bytes: returns when they are all
\* there, fails when the stream breaks first, blocks otherwise.  A zero
\* length makes receive() return an empty buffer.
ReceiveHeader ==
    /\ userPc = "recv_header"
    /\ LET s == m_activeSocket
           in == sock[s].inbox
       IN IF Len(in) >= 4
          THEN LET payloadLen == decodeBE32(SubSeq(in, 1, 4))
               IN /\ sock' = [sock EXCEPT ![s].inbox = SubSeq(in, 5, Len(in))]
                  /\ IF payloadLen = 0
                     THEN /\ userResult' = Result("ok", <<>>)
                          /\ userPc' = "idle"
                          /\ m_socketMutex' = "none"
                          /\ UNCHANGED userNeed
                     ELSE /\ userNeed' = payloadLen
                          /\ userPc' = "recv_payload"
                          /\ UNCHANGED <<userResult, m_socketMutex>>
          ELSE /\ Broken(s)
               /\ sock' = [sock EXCEPT ![s].inbox = <<>>]
               /\ userResult' = Result("IoError", <<>>)
               /\ userPc' = "idle"
               /\ m_socketMutex' = "none"
               /\ UNCHANGED userNeed
    /\ UNCHANGED userBuf
    /\ userUnchanged

\* A receive() that hands back the bytes it got when the stream ends early.
ReceivePayloadReturnsPartial ==
    /\ userPc = "recv_payload"
    /\ LET s == m_activeSocket
           in == sock[s].inbox
       IN IF Len(in) >= userNeed
          THEN /\ sock' = [sock EXCEPT ![s].inbox = SubSeq(in, userNeed + 1, Len(in))]
               /\ userResult' = Result("ok", SubSeq(in, 1, userNeed))
          ELSE /\ Broken(s)
               /\ sock' = [sock EXCEPT ![s].inbox = <<>>]
               /\ userResult' = Result("ok", in)
    /\ userPc' = "idle"
    /\ userNeed' = 0
    /\ m_socketMutex' = "none"
    /\ UNCHANGED userBuf
    /\ userUnchanged

\* boost::asio::read of the payloadLen payload bytes.
ReceivePayload ==
    /\ userPc = "recv_payload"
    /\ LET s == m_activeSocket
           in == sock[s].inbox
       IN IF Len(in) >= userNeed
          THEN /\ sock' = [sock EXCEPT ![s].inbox = SubSeq(in, userNeed + 1, Len(in))]
               /\ userResult' = Result("ok", SubSeq(in, 1, userNeed))
          ELSE /\ Broken(s)
               /\ sock' = [sock EXCEPT ![s].inbox = <<>>]
               /\ userResult' = Result("IoError", <<>>)
    /\ userPc' = "idle"
    /\ userNeed' = 0
    /\ m_socketMutex' = "none"
    /\ UNCHANGED userBuf
    /\ userUnchanged

\* send(buffer) is called.
SendCall(buffer) ==
    /\ userPc = "idle" /\ lifetime = "alive"
    /\ userPc' = "send_lock"
    /\ userBuf' = buffer
    /\ userResult' = NoResult
    /\ UNCHANGED <<userNeed, sock, m_socketMutex>>
    /\ userUnchanged

\* std::lock_guard lock(m_socketMutex); if (!m_activeSocket) throw; the
\* header is encoded in front of the payload.
SendEnter ==
    /\ userPc = "send_lock"
    /\ m_socketMutex = "none"
    /\ IF m_activeSocket = NoSocket
       THEN /\ userResult' = Result("NotConnected", <<>>)
            /\ userPc' = "idle"
            /\ userBuf' = <<>>
            /\ UNCHANGED m_socketMutex
       ELSE /\ m_socketMutex' = "user"
            /\ userPc' = "send_write"
            /\ userBuf' = Frame(userBuf)
            /\ UNCHANGED userResult
    /\ UNCHANGED <<userNeed, sock>>
    /\ userUnchanged

\* boost::asio::write of header and payload: moves what the send buffer
\* takes, returns when everything is written, fails when the stream breaks,
\* blocks while the send buffer is full.
SendWrite ==
    /\ userPc = "send_write"
    /\ LET s == m_activeSocket
           room == SendBufferSize - Len(sock[s].outbox)
           n == IF room < Len(userBuf) THEN room ELSE Len(userBuf)
       IN IF Broken(s)
          THEN /\ userResult' = Result("IoError", <<>>)
               /\ userPc' = "idle"
               /\ userBuf' = <<>>
               /\ m_socketMutex' = "none"
               /\ UNCHANGED sock
          ELSE /\ n > 0
               /\ sock' = [sock EXCEPT ![s].outbox = @ \o SubSeq(userBuf, 1, n)]
               /\ userBuf' = SubSeq(userBuf, n + 1, Len(userBuf))
               /\ IF n = Len(userBuf)
                  THEN /\ userResult' = Result("ok", <<>>)
                       /\ userPc' = "idle"
                       /\ m_socketMutex' = "none"
                  ELSE UNCHANGED <<userResult, userPc, m_socketMutex>>
    /\ UNCHANGED userNeed
    /\ userUnchanged

\* The steps of stop() after its entry.
StopStep == StopCloseAcceptor \/ StopTeardown \/ StopIoContext \/ StopJoin

\* The steps of the worker thread.
WorkerStep ==
    \/ \E h \in ready : \E raises \in BOOLEAN : AcceptHandler(h, raises)
    \/ \E h \in ready : HandshakeHandler(h)
    \/ HandshakeInstall
    \/ HandshakeCheckRunning
    \/ HandshakeRearm
    \/ WorkerExit

\* The steps of send() and receive() after their entry.
CallStep ==
    ReceiveEnter \/ ReceiveHeader \/ ReceivePayload \/ SendEnter \/ SendWrite

NextTransport ==
    \/ StartWhileRunning
    \/ \E failAt \in {"none", "make_address", "open", "bind", "listen"} : Start(failAt)
    \/ StopWhileStopped
    \/ \E fromDestructor \in BOOLEAN : StopCall(fromDestructor)
    \/ StopCloseAcceptor
    \/ StopTeardown
    \/ StopIoContext
    \/ StopJoin
    \/ DestroyStopped
    \/ \E h \in ready : \E raises \in BOOLEAN : AcceptHandler(h, raises)
    \/ \E h \in ready : HandshakeHandler(h)
    \/ HandshakeInstall
    \/ HandshakeCheckRunning
    \/ HandshakeRearm
    \/ WorkerExit
    \/ \E s \in SockIds : PeerConnect(s)
    \/ \E s \in SockIds : AcceptFails(s)
    \/ \E s \in SockIds : \E ok \in BOOLEAN : PeerHandshake(s, ok)
    \/ \E s \in SockIds : \E chunk \in PeerChunks : PeerSend(s, chunk)
    \/ \E s \in SockIds : PeerTake(s)
    \/ \E s \in SockIds : PeerClose(s)
    \/ \E s \in SockIds : PeerGoesSilent(s)
    \/ ReceiveCall
    \/ ReceiveEnter
    \/ ReceiveHeader
    \/ ReceivePayload
    \/ \E buffer \in SendBuffers : SendCall(buffer)
    \/ SendEnter
    \/ SendWrite

(***************************************************************************)
(* The framing codec: header encoding and the frame round trip             *)
(***************************************************************************)
\* 32-bit values put through encodeBE32 / decodeBE32: a run of small values
\* and the values around each byte boundary.
Words ==
    (0..MaxWord) \cup {65535, 65536, 65537, 16777215, 16777216, 16777217,
                       2147483646, 2147483647}

\* Payloads handed to send().
PayloadBytes == {0, 7, 255}
FramePayloads ==
    UNION {[1..n -> PayloadBytes] : n \in 0..MaxPayloadLen}

\* receive() applied to a byte stream that holds `in` and then ends: the
\* header read, the zero-length return, the payload read.
ReceiveFrom(in) ==
    IF Len(in) < 4
    THEN [status |-> "IoError", payload |-> <<>>, rest |-> <<>>]
    ELSE LET payloadLen == decodeBE32(SubSeq(in, 1, 4))
             body == SubSeq(in, 5, Len(in))
         IN IF payloadLen = 0
            THEN [status |-> "ok", payload |-> <<>>, rest |-> body]
            ELSE IF Len(body) >= payloadLen
            THEN [status |-> "ok", payload |-> SubSeq(body, 1, payloadLen),
                  rest |-> SubSeq(body, payloadLen + 1, Len(body))]
            ELSE [status |-> "IoError", payload |-> <<>>, rest |-> <<>>]

\* Sizes of the buffers handed to send(): small ones and those around
\* MAX_FRAME.  (All are below 2^32, where static_cast<uint32_t> keeps the
\* value.)
BufferSizes == {0, 1, MaxPayloadLen, MAX_FRAME - 1, MAX_FRAME, MAX_FRAME + 1}

\* send() of a buffer of `size` bytes on a healthy session: the header it
\* builds and the number of bytes the gather write puts on the stream.
\* There is no test of the size.
SendFrame(size) ==
    [status |-> "ok", header |-> encodeBE32(size), written |-> 4 + size]

FramingInit == framing = [op |-> "none"]

\* decodeBE32(encodeBE32(value).data()).
HeaderRoundTrip(value) ==
    /\ framing' = [op |-> "header", value |-> value,
                   bytes |-> encodeBE32(value),
                   decoded |-> decodeBE32(encodeBE32(value))]
    /\ UNCHANGED nonFramingVars

\* send(buffer) on one side, receive() of the bytes it wrote on the other.
FrameRoundTrip(buffer) ==
    /\ framing' = [op |-> "frame", buffer |-> buffer,
                   frame |-> Frame(buffer),
                   received |-> ReceiveFrom(Frame(buffer))]
    /\ UNCHANGED nonFramingVars

\* send(buffer) with buffer.size() = size.
SendSized(size) ==
    /\ framing' = [op |-> "send", size |-> size, sent |-> SendFrame(size)]
    /\ UNCHANGED nonFramingVars

NextFraming ==
    \/ \E value \in Words : HeaderRoundTrip(value)
    \/ \E size \in BufferSizes : SendSized(size)
    \/ \E buffer \in FramePayloads : FrameRoundTrip(buffer)

(***************************************************************************)
(* send() and receive() of several callers on one established session      *)
(***************************************************************************)
\* The threads that call send() and receive() on the session.
Callers == {"t1", "t2"}
NoOwner == "none"

\* Buffers the callers send and payloads the client frames.
SessionBuffers == {<<>>, <<7>>, <<8, 9>>}
PeerPayloads == {<<>>, <<7>>}

IdleCaller == [pc |-> "idle", buf |-> <<>>, need |-> 0]

\* The client's bytes that have arrived and have not been read.
Arrived == SubSeq(peerStream, consumed + 1, delivered)

SessionInit ==
    /\ sessionMutex = NoOwner
    /\ callers = [c \in Callers |-> IdleCaller]
    /\ wire = <<>>
    /\ lockOrder = <<>>
    /\ peerStream = <<>>
    /\ emitted = <<>>
    /\ delivered = 0
    /\ consumed = 0
    /\ returned = <<>>
    /\ nCalls = 0

peerSide == <<peerStream, emitted, delivered>>

\* Caller c calls send(buffer).
SessionSend(c, buffer) ==
    /\ callers[c].pc = "idle"
    /\ nCalls < MaxCalls
    /\ nCalls' = nCalls + 1
    /\ callers' = [callers EXCEPT ![c] = [pc |-> "send_lock", buf |-> buffer, need |-> 0]]
    /\ UNCHANGED <<sessionMutex, wire, lockOrder, peerSide, consumed, returned,
                   nonSessionVars>>

\* A send() that goes on without owning the mutex.
SessionSendEnterWithoutLock(c) ==
    /\ callers[c].pc = "send_lock"
    /\ lockOrder' = Append(lockOrder, callers[c].buf)
    /\ callers' = [callers EXCEPT ![c].pc = "send_write",
                                  ![c].buf = Frame(callers[c].buf)]
    /\ UNCHANGED <<sessionMutex, wire, peerSide, consumed, returned, nCalls,
                   nonSessionVars>>

\* std::lock_guard lock(m_socketMutex) in send(); the header is encoded in
\* front of the payload.
SessionSendEnter(c) ==
    /\ callers[c].pc = "send_lock"
    /\ sessionMutex = NoOwner
    /\ sessionMutex' = c
    /\ lockOrder' = Append(lockOrder, callers[c].buf)
    /\ callers' = [callers EXCEPT ![c].pc = "send_write",
                                  ![c].buf = Frame(callers[c].buf)]
    /\ UNCHANGED <<wire, peerSide, consumed, returned, nCalls, nonSessionVars>>

\* boost::asio::write: the stream takes the next n bytes; send() returns
\* and the lock_guard releases the mutex when all are written.
SessionSendWrite(c, n) ==
    /\ callers[c].pc = "send_write"
    /\ n \in 1..Len(callers[c].buf)
    /\ wire' = wire \o SubSeq(callers[c].buf, 1, n)
    /\ IF n = Len(callers[c].buf)
       THEN /\ callers' = [callers EXCEPT ![c] = IdleCaller]
            /\ sessionMutex' = NoOwner
       ELSE /\ callers' = [callers EXCEPT
                             ![c].buf = SubSeq(@, n + 1, Len(@))]
            /\ UNCHANGED sessionMutex
    /\ UNCHANGED <<lockOrder, peerSide, consumed, returned, nCalls, nonSessionVars>>

\* Caller c calls receive().
SessionReceive(c) ==
    /\ callers[c].pc = "idle"
    /\ nCalls < MaxCalls
    /\ nCalls' = nCalls + 1
    /\ callers' = [callers EXCEPT ![c].pc = "recv_lock"]
    /\ UNCHANGED <<sessionMutex, wire, lockOrder, peerSide, consumed, returned,
                   nonSessionVars>>

\* std::lock_guard lock(m_socketMutex) in receive().
SessionReceiveEnter(c) ==
    /\ callers[c].pc = "recv_lock"
    /\ sessionMutex = NoOwner
    /\ sessionMutex' = c
    /\ callers' = [callers EXCEPT ![c].pc = "recv_header"]
    /\ UNCHANGED <<wire, lockOrder, peerSide, consumed, returned, nCalls,
                   nonSessionVars>>

\* The header read of receive() completes; a zero length returns an empty
\* buffer.
SessionReceiveHeader(c) ==
    /\ callers[c].pc = "recv_header"
    /\ Len(Arrived) >= 4
    /\ consumed' = consumed + 4
    /\ LET payloadLen == decodeBE32(SubSeq(Arrived, 1, 4))
       IN IF payloadLen = 0
          THEN /\ returned' = Append(returned, <<>>)
               /\ callers' = [callers EXCEPT ![c] = IdleCaller]
               /\ sessionMutex' = NoOwner
          ELSE /\ callers' = [callers EXCEPT ![c].pc = "recv_payload",
                                             ![c].need = payloadLen]
               /\ UNCHANGED <<returned, sessionMutex>>
    /\ UNCHANGED <<wire, lockOrder, peerSide, nCalls, nonSessionVars>>

\* The payload read of receive() completes and receive() returns.
SessionReceivePayload(c) ==
    /\ callers[c].pc = "recv_payload"
    /\ Len(Arrived) >= callers[c].need
    /\ consumed' = consumed + callers[c].need
    /\ returned' = Append(returned, SubSeq(Arrived, 1, callers[c].need))
    /\ callers' = [callers EXCEPT ![c] = IdleCaller]
    /\ sessionMutex' = NoOwner
    /\ UNCHANGED <<wire, lockOrder, peerSide, nCalls, nonSessionVars>>

\* The client frames a payload and emits it.
PeerEmit(payload) ==
    /\ Len(emitted) < MaxEmits
    /\ emitted' = Append(emitted, payload)
    /\ peerStream' = peerStream \o Frame(payload)
    /\ UNCHANGED <<sessionMutex, callers, wire, lockOrder, delivered, consumed,
                   returned, nCalls, nonSessionVars>>

\* Some more of the client's bytes arrive.
PeerDeliver(n) ==
    /\ n \in 1..(Len(peerStream) - delivered)
    /\ delivered' = delivered + n
    /\ UNCHANGED <<sessionMutex, callers, wire, lockOrder, peerStream, emitted,
                   consumed, returned, nCalls, nonSessionVars>>

NextSession ==
    \/ \E c \in Callers : \E buffer \in SessionBuffers : SessionSend(c, buffer)
    \/ \E c \in Callers : SessionSendEnter(c)
    \/ \E c \in Callers : \E n \in 1..6 : SessionSendWrite(c, n)
    \/ \E c \in Callers : SessionReceive(c)
    \/ \E c \in Callers : SessionReceiveEnter(c)
    \/ \E c \in Callers : SessionReceiveHeader(c)
    \/ \E c \in Callers : SessionReceivePayload(c)
    \/ \E payload \in PeerPayloads : PeerEmit(payload)
    \/ \E n \in 1..5 : PeerDeliver(n)

(***************************************************************************)
(* The server process: main() and the signal handler                       *)
(***************************************************************************)
MainInit ==
    /\ g_shutdown = FALSE
    /\ mainReturn = "running"

\* A start() call that does not wait for the facade.
MainStartBeforeBootstrap(failAt) ==
    /\ mainReturn = "running"
    /\ nStarts = 0
    /\ Start(failAt)

\* try { transport.start(); }: comes after the registry is populated and
\* moved into the facade, and after the transport is constructed.
MainStart(failAt) ==
    /\ mainReturn = "running"
    /\ facadeBuilt
    /\ nStarts = 0
    /\ Start(failAt)

\* A handler that stops the transport itself.
OnShutdownSignalStopsTransport ==
    /\ mainReturn = "running"
    /\ facadeBuilt
    /\ g_shutdown' = TRUE
    /\ m_running' = FALSE
    /\ UNCHANGED <<mainReturn, dispatchVars, reportVars, framingVars, sessionVars,
                   acceptor, m_workGuard, ioStopped, workerVars, asyncVars,
                   m_activeSocket, m_socketMutex, appPc, appResult, lifetime,
                   nStarts, nConnects, userVars>>

\* SIGINT or SIGTERM is delivered once std::signal has installed the handler:
\* g_shutdown.store(true).
OnShutdownSignal ==
    /\ mainReturn = "running"
    /\ facadeBuilt
    /\ g_shutdown' = TRUE
    /\ UNCHANGED <<mainReturn, nonMainVars>>

\* while (!g_shutdown.load()) sleep_for(100ms); ends and main() calls
\* transport.stop().
MainStop ==
    /\ mainReturn = "running"
    /\ appResult = "start_ok"
    /\ g_shutdown
    /\ StopCall(FALSE)

\* A catch block that does not report the failure.
MainCatchStartReturnsSuccess ==
    /\ mainReturn = "running"
    /\ appPc = "idle" /\ appResult = "start_threw"
    /\ mainReturn' = "EXIT_SUCCESS"
    /\ UNCHANGED <<g_shutdown, nonMainVars>>

\* catch (const std::exception&) around transport.start(): return EXIT_FAILURE.
MainCatchStart ==
    /\ mainReturn = "running"
    /\ appPc = "idle" /\ appResult = "start_threw"
    /\ mainReturn' = "EXIT_FAILURE"
    /\ UNCHANGED <<g_shutdown, nonMainVars>>

\* transport.stop() has returned: return EXIT_SUCCESS.
MainReturn ==
    /\ mainReturn = "running"
    /\ appPc = "idle" /\ appResult = "stop_ok"
    /\ mainReturn' = "EXIT_SUCCESS"
    /\ UNCHANGED <<g_shutdown, nonMainVars>>

\* main() has returned: the transport, a local of main(), is destroyed.
\* After a start() that threw, m_running is still true and the destructor's
\* stop() takes its full path.
MainDestroy ==
    /\ mainReturn # "running"
    /\ IF m_running THEN StopCall(TRUE) ELSE DestroyStopped

\* The steps of the main thread.
MainStep ==
    \/ MainBootstrap
    \/ \E failAt \in {"none", "make_address", "open", "bind", "listen"} :
           MainStart(failAt)
    \/ MainStop
    \/ StopStep
    \/ MainCatchStart
    \/ MainReturn
    \/ MainDestroy

NextMain ==
    \/ MainBootstrap
    \/ \E failAt \in {"none", "make_address", "open", "bind", "listen"} :
           MainStart(failAt)
    \/ OnShutdownSignal
    \/ MainStop
    \/ StopCloseAcceptor
    \/ StopTeardown
    \/ StopIoContext
    \/ StopJoin
    \/ MainCatchStart
    \/ MainReturn
    \/ MainDestroy
    \/ \E h \in ready : \E raises \in BOOLEAN : AcceptHandler(h, raises)
    \/ \E h \in ready : HandshakeHandler(h)
    \/ HandshakeInstall
    \/ HandshakeCheckRunning
    \/ HandshakeRearm
    \/ WorkerExit
    \/ \E s \in SockIds : PeerConnect(s)
    \/ \E s \in SockIds : AcceptFails(s)
    \/ \E s \in SockIds : \E ok \in BOOLEAN : PeerHandshake(s, ok)
    \/ \E s \in SockIds : \E chunk \in PeerChunks : PeerSend(s, chunk)
    \/ \E s \in SockIds : PeerClose(s)

(***************************************************************************)
(* Specifications                                                          *)
(***************************************************************************)
vars ==
    <<dispatchVars, reportVars, transportVars, framingVars, sessionVars, mainVars>>

Init ==
    /\ DispatchInit /\ ReportInit /\ TransportInit /\ FramingInit
    /\ SessionInit /\ MainInit

Next ==
    \/ NextDispatch \/ NextReport \/ NextTransport \/ NextFraming
    \/ NextSession \/ NextMain

Spec == Init /\ [][Next]_vars

SpecDispatch == Init /\ [][NextDispatch]_vars

SpecTransport == Init /\ [][NextTransport]_vars

SpecFraming == Init /\ [][NextFraming]_vars

SpecSession == Init /\ [][NextSession]_vars

SpecMain == Init /\ [][NextMain]_vars

\* The main thread and the worker thread keep running; nothing is assumed
\* of signals or of clients.
FairSpecMain ==
    /\ SpecMain
    /\ WF_vars(MainStep)
    /\ WF_vars(WorkerStep)

\* The threads of the program keep running: stop() once entered, the worker
\* thread and a send() or receive() once entered take their next step when
\* they can.  Nothing is assumed of the clients or of new calls.
FairSpecTransport ==
    /\ SpecTransport
    /\ WF_vars(StopStep)
    /\ WF_vars(WorkerStep)
    /\ WF_vars(CallStep)

SpecReport == Init /\ [][NextReport]_vars

(***************************************************************************)
(* Properties of the dispatch pipeline                                     *)
(***************************************************************************)
StartsWith(str, prefix) ==
    /\ Len(str) >= Len(prefix)
    /\ SubSeq(str, 1, Len(prefix)) = prefix

Handled == dispatch.op = "handleRequest"
Registered == m_factories[dispatch.request.type] # NoFactory

\* The service and method the claim binds to each listed opcode.
BoundService(type) ==
    CASE type = GET_MARKET_DATA -> "marketData"
      [] type = CALCULATE -> "calculation"
      [] type = MANIPULATE -> "manipulation"
      [] type = GENERATE_REPORT -> "report"

BoundMethod(type) ==
    CASE type = GET_MARKET_DATA -> "getData"
      [] type = CALCULATE -> "calculate"
      [] type = MANIPULATE -> "manipulate"
      [] type = GENERATE_REPORT -> "generateReport"

\* C1: every handleRequest call returns a Response, whatever the registry,
\* the factory, the command and the service do; no exception leaves it.
C1_NeverPropagates == Handled => dispatch.outcome.kind = "return"

\* C2: a request whose opcode has no registered factory gets success=false,
\* a message beginning "Unknown request type: ", empty data, and no service
\* (and no factory) is invoked.
C2_UnknownOpcodeResponse ==
    (Handled /\ ~Registered) =>
        /\ dispatch.outcome.kind = "return"
        /\ dispatch.outcome.value.success = FALSE
        /\ StartsWith(dispatch.outcome.value.message, "Unknown request type: ")
        /\ dispatch.outcome.value.data = <<>>
        /\ dispatch.serviceCalls = <<>>
        /\ dispatch.factoryCalls = <<>>

C2_Witness == Handled /\ ~Registered /\ dispatch.request.payload # <<>>

\* C3: for a registered opcode, any exception raised while the command is
\* constructed or executed gives success=false, a message beginning
\* "Internal server error: " and empty data.
C3_RaisedGivesInternalError ==
    (Handled /\ Registered
        /\ (dispatch.created.kind = "throw" \/ dispatch.executed.kind = "throw")) =>
        /\ dispatch.outcome.kind = "return"
        /\ dispatch.outcome.value.success = FALSE
        /\ StartsWith(dispatch.outcome.value.message, "Internal server error: ")
        /\ dispatch.outcome.value.data = <<>>

\* C4: for a registered opcode whose command executes and returns normally,
\* handleRequest returns exactly the Response the command obtained from its
\* service: success, message and data unchanged.
C4_ResponseUntouched ==
    (Handled /\ Registered /\ dispatch.executed.kind = "return") =>
        /\ dispatch.outcome = dispatch.executed
        /\ \A i \in 1..Len(dispatch.serviceCalls) :
               dispatch.serviceCalls[i].outcome = dispatch.outcome

C4_Witness ==
    /\ Handled /\ Registered /\ dispatch.executed.kind = "return"
    /\ Len(dispatch.serviceCalls) = 1
    /\ dispatch.outcome.value.success = TRUE
    /\ dispatch.outcome.value.data # <<>>

\* C5: with the registry wired as in main(), one handleRequest call for a
\* listed opcode makes exactly one call, into the service bound to that opcode
\* and by the bound method, and none into the other services.
C5_OneCallIntoBoundService ==
    (Handled /\ m_factories = MainRegistry
        /\ dispatch.request.type \in ListedRequestTypes) =>
        /\ Len(dispatch.serviceCalls) = 1
        /\ dispatch.serviceCalls[1].service = BoundService(dispatch.request.type)
        /\ dispatch.serviceCalls[1].method = BoundMethod(dispatch.request.type)

C5_Witness ==
    /\ Handled /\ m_factories = MainRegistry
    /\ dispatch.request.type = GENERATE_REPORT
    /\ dispatch.serviceCalls[1].service = "report"

\* C6: for an opcode that no registerCommand call ever named, create fails
\* with std::out_of_range and invokes no factory.
C6_NeverRegisteredIsUnknown ==
    (dispatch.op \in {"create", "handleRequest"}
        /\ lastRegistered[dispatch.request.type] = NoFactory) =>
        /\ dispatch.created.kind = "throw"
        /\ dispatch.created.exc.type = "std::out_of_range"
        /\ dispatch.factoryCalls = <<>>

C6_Witness ==
    /\ dispatch.op = "create"
    /\ lastRegistered[dispatch.request.type] = NoFactory
    /\ nRegistered > 0

\* C7: create invokes, exactly once, the factory most recently registered for
\* the request's opcode, and no other factory; in particular after
\* registerCommand(k, f1); registerCommand(k, f2) it invokes f2 and never f1.
C7_LastRegistrationWins ==
    (dispatch.op \in {"create", "handleRequest"}
        /\ lastRegistered[dispatch.request.type] # NoFactory) =>
        dispatch.factoryCalls =
            <<FactoryCall(lastRegistered[dispatch.request.type], dispatch.request)>>

C7_Witness ==
    /\ dispatch.op = "create"
    /\ replaced[dispatch.request.type] # NoFactory
    /\ replaced[dispatch.request.type] # lastRegistered[dispatch.request.type]
    /\ Len(dispatch.factoryCalls) = 1

(***************************************************************************)
(* Properties of the report pipeline                                       *)
(***************************************************************************)
StepOrder == <<"fetchData", "computeReport", "format">>

\* C8: one generate call runs fetchData, computeReport and format once each
\* in that order; computeReport receives what fetchData returned, format
\* receives what computeReport returned, and generate returns what format
\* returned.  (A step that raises ends the call there: the steps run so far
\* are a prefix of the order.)
C8_PipelineOrderAndDataFlow ==
    report.op = "generate" =>
        /\ Len(report.calls) \in 1..3
        /\ \A i \in 1..Len(report.calls) : report.calls[i].step = StepOrder[i]
        /\ report.calls[1].arg = report.request
        /\ \A i \in 2..Len(report.calls) :
               /\ report.calls[i - 1].outcome.kind = "return"
               /\ report.calls[i].arg = report.calls[i - 1].outcome.value
        /\ report.outcome = report.calls[Len(report.calls)].outcome
        /\ (report.outcome.kind = "return" => Len(report.calls) = 3)
        /\ (Len(report.calls) < 3 => report.outcome.kind = "throw")

C8_Witness ==
    /\ report.op = "generate"
    /\ report.outcome.kind = "return"
    /\ report.calls[1].outcome.value # report.calls[2].outcome.value
    /\ report.calls[2].outcome.value # report.outcome.value
    /\ report.calls[1].outcome.value # <<>>


(***************************************************************************)
(* Properties of the transport: stop() against blocked calls               *)
(***************************************************************************)
\* stop() has been entered and has not returned.
StopInProgress == appPc \in {"stop_close", "stop_lock", "stop_io", "stop_join"}

\* The client of the active session hangs: its bytes never arrive and it
\* never takes any.
PeerNeverActs ==
    /\ m_activeSocket # NoSocket
    /\ sock[m_activeSocket].state = "established"
    /\ sock[m_activeSocket].peer = "silent"

\* A caller is inside receive() on the active session, in a blocking read
\* that the bytes received so far do not satisfy.
BlockedInReceive ==
    /\ m_socketMutex = "user"
    /\ PeerNeverActs
    /\ \/ userPc = "recv_header" /\ Len(sock[m_activeSocket].inbox) < 4
       \/ userPc = "recv_payload" /\ Len(sock[m_activeSocket].inbox) < userNeed

\* A caller is inside send() on the active session, in a blocking write
\* with the send buffer full.
BlockedInSend ==
    /\ m_socketMutex = "user"
    /\ PeerNeverActs
    /\ userPc = "send_write"
    /\ Len(sock[m_activeSocket].outbox) = SendBufferSize

\* C9: stop(), whether called directly or run by the destructor, terminates
\* even when another thread is blocked inside receive() on the active
\* session waiting for bytes that never arrive: whenever stop() is in
\* progress in that situation, it eventually returns.
C9_StopTerminatesDespiteBlockedReceive ==
    (StopInProgress /\ BlockedInReceive) ~> (appPc = "idle")

\* C10: when stop() runs while a send() or receive() is in flight on the
\* active session (here: blocked on a client that never acts, so that only
\* stop() can end it), the call eventually returns to its caller with
\* IoError.
C10_InFlightCallReturnsIoError ==
    (StopInProgress /\ (BlockedInReceive \/ BlockedInSend))
        ~> (userPc = "idle" /\ userResult.status = "IoError")

(***************************************************************************)
(* Properties of the transport: lifecycle and the accept loop              *)
(***************************************************************************)
\* stop() has taken its full path and returned, on a transport whose start()
\* had launched the worker, and the object is still there.
StopReturned ==
    /\ appPc = "idle"
    /\ appResult = "stop_ok"
    /\ lifetime = "alive"
    /\ m_ioThread # "none"

\* C11: after start() followed by stop() has returned, whatever the worker
\* thread did with accept and handshake completions in between, the
\* transport is Idle: running is false, the worker thread has exited and
\* been joined, the acceptor is closed and the session slot is empty.
C11_StopReturnsToIdle ==
    StopReturned =>
        /\ ~m_running
        /\ m_ioThread = "joined"
        /\ acceptor = "closed"
        /\ m_activeSocket = NoSocket

\* The state of the transport object and of its worker thread.
objectVars ==
    <<m_running, acceptor, m_workGuard, ioStopped, m_ioThread, workerPc, wk,
      sock, accepts, handshakes, ready, m_activeSocket, m_socketMutex, lifetime>>

\* C12: start() on a transport that is already running and stop() on one
\* that is not running are no-ops: the step in which such a call returns
\* changes nothing of the object (no flag, no socket opened or closed, no
\* accept armed, no thread spawned or joined); and a worker thread is only
\* ever launched when none exists, so there is at most one.
C12_RedundantCallsAreNoOps ==
    [][/\ (appResult' = "start_noop" /\ appResult' # appResult)
            => (m_running /\ UNCHANGED objectVars)
       /\ (appResult' = "stop_noop" /\ appResult' # appResult)
            => (~m_running /\ UNCHANGED objectVars)
       /\ (m_ioThread' = "running" /\ m_ioThread # "running")
            => m_ioThread \in {"none", "joined"}]_vars

\* start() has been called again while the worker runs and an accept is
\* outstanding.
C12_Witness ==
    /\ appResult = "start_noop"
    /\ m_ioThread = "running"
    /\ Cardinality(accepts) = 1

\* C13: at every instant, over any sequence of start(), stop(), accept
\* completions and handshake completions, at most one asynchronous accept
\* is outstanding on the acceptor.
C13_AtMostOneOutstandingAccept == Cardinality(accepts) <= 1

\* An accept is outstanding again after a handshake completed and its
\* handler armed it, with the earlier client as the active session.
C13_Witness ==
    /\ Cardinality(accepts) = 1
    /\ m_activeSocket # NoSocket
    /\ nConnects >= 1

\* The listener is running and at rest: start() succeeded, no stop() was
\* called, the worker is in run() between handlers, and no completion or
\* handshake is pending.
ListenerAtRest ==
    /\ m_running /\ appPc = "idle" /\ lifetime = "alive"
    /\ acceptor = "listening"
    /\ Reactor /\ workerPc = "idle"
    /\ ready = {} /\ handshakes = {}

\* C14: while the listener is running, every accept completion that is not
\* a cancellation, whether a successful accept or an accept that failed
\* with another error, is followed by one new accept being armed, so the
\* listener keeps accepting clients: whenever the running listener is at
\* rest, an accept is outstanding.
C14_AcceptLoopKeepsArmed == ListenerAtRest => Cardinality(accepts) = 1

\* acceptNextConnection() is invoked in this step: a socket object is made
\* for a new async_accept.
AcceptArmed ==
    \E s \in SockIds : sock[s].state = "free" /\ sock'[s].state = "created"

\* C15: once stop() has cleared the running flag, no further accept is
\* armed: under every interleaving of stop() with a handshake completion
\* handler, acceptNextConnection() is only ever invoked while running is
\* true and the acceptor is open and listening.
C15_NoAcceptArmedOnceStopping ==
    [][AcceptArmed => (m_running' /\ acceptor' = "listening")]_vars

\* The handler of a failed handshake ends in this step, on a listener that
\* is running.
FailedHandshakeHandled ==
    /\ workerPc = "hs_accept" /\ workerPc' = "idle"
    /\ wk.ec = "error"
    /\ m_running

\* C16: when a TLS handshake fails while the listener is running, the
\* failed stream is closed and never becomes the active session, exactly
\* one new accept is armed, and the listener remains running (flag set,
\* acceptor listening, worker in run()) and so able to accept a later
\* client.
C16_HandshakeFailureNotFatal ==
    [][/\ FailedHandshakeHandled =>
            /\ sock'[wk.sock] = FreeSocket
            /\ m_activeSocket' # wk.sock
            /\ accepts = {} /\ Cardinality(accepts') = 1
            /\ m_running' /\ acceptor' = "listening" /\ Reactor'
       /\ \A s \in SockIds : sock[s].state = "failed" => m_activeSocket' # s]_vars

\* The handler of a failed handshake has read the flag as true and is about
\* to arm the next accept.
C16_Witness ==
    /\ workerPc = "hs_accept"
    /\ wk.ec = "error" /\ wk.running
    /\ sock[wk.sock].state = "failed"
    /\ m_running

(***************************************************************************)
(* Properties of the transport: send() and receive()                       *)
(***************************************************************************)
\* A send() or receive() returns to its caller in this step with the given
\* outcome.
CallReturns(status) ==
    /\ userPc \notin {"idle", "undefined"}
    /\ userPc' = "idle"
    /\ userResult'.status = status

\* C17: when send() or receive() fails with IoError on the active stream,
\* the current session is terminated: as the call returns, the session slot
\* is empty (so that a following send()/receive() fails with NotConnected).
C17_IoErrorEndsSession ==
    [][CallReturns("IoError") => m_activeSocket' = NoSocket]_vars

\* C18: when the 4-byte header read by receive() advertises a length
\* N > MAX_FRAME, receive() fails (FrameTooLarge) without allocating or
\* reading an N-byte payload: receive() is never in its payload read with
\* more than MAX_FRAME bytes to read.
C18_OversizeFrameRejected == userPc = "recv_payload" => userNeed <= MAX_FRAME

\* A send() or receive() goes past its lock in this step and finds the
\* session slot empty.
EntersWithEmptySlot ==
    /\ userPc \in {"send_lock", "recv_lock"}
    /\ userPc' # userPc
    /\ m_activeSocket = NoSocket
    /\ lifetime' = "alive"

\* C19: send() and receive() called while the session slot is empty fail
\* with NotConnected, perform no I/O on any socket and leave the state of
\* the transport unchanged; and NotConnected is only ever reported for an
\* empty slot.
C19_EmptySlotGivesNotConnected ==
    [][/\ EntersWithEmptySlot
            => (CallReturns("NotConnected") /\ UNCHANGED objectVars)
       /\ CallReturns("NotConnected")
            => (m_activeSocket = NoSocket /\ UNCHANGED objectVars)]_vars

\* A call has failed with NotConnected on a running listener that has not
\* completed any handshake yet.
C19_Witness ==
    /\ userPc = "idle"
    /\ userResult.status = "NotConnected"
    /\ m_running /\ Cardinality(accepts) = 1
    /\ m_activeSocket = NoSocket

(***************************************************************************)
(* Properties of the framing codec                                         *)
(***************************************************************************)
\* C20: the frame emitted by send(P) is decoded by the receiving side's
\* receive() to a payload equal to P byte for byte, the empty payload
\* included, with nothing left over; and decodeBE32(encodeBE32(n)) = n,
\* the header being 4 bytes.
C20_FrameRoundTrip ==
    /\ framing.op = "frame" =>
          /\ Len(framing.frame) = 4 + Len(framing.buffer)
          /\ framing.received.status = "ok"
          /\ framing.received.payload = framing.buffer
          /\ framing.received.rest = <<>>
    /\ framing.op = "header" =>
          /\ Len(framing.bytes) = 4
          /\ \A i \in 1..4 : framing.bytes[i] \in 0..255
          /\ framing.decoded = framing.value

\* A payload of the greatest length tried, with a byte of value 255, has
\* made the round trip.
C20_Witness ==
    /\ framing.op = "frame"
    /\ Len(framing.buffer) = MaxPayloadLen
    /\ framing.buffer[1] = 255

\* C21: for every payload accepted by send() the bytes written are exactly
\* 4 + |payload|, a 4-byte big-endian header whose value is |payload|
\* followed by the payload; and send() fails, writing nothing, when
\* |payload| > MAX_FRAME.
C21_SendWritesOneBoundedFrame ==
    framing.op = "send" =>
        IF framing.size <= MAX_FRAME
        THEN /\ framing.sent.status = "ok"
             /\ framing.sent.written = 4 + framing.size
             /\ decodeBE32(framing.sent.header) = framing.size
        ELSE /\ framing.sent.status # "ok"
             /\ framing.sent.written = 0

\* A receive() leaves one of its two blocking reads and returns in this
\* step.
ReceiveReturns ==
    /\ userPc \in {"recv_header", "recv_payload"}
    /\ userPc' = "idle"

\* The bytes the stream has delivered do not satisfy the read receive() is
\* in: fewer than 4 header bytes, or fewer than N payload bytes.
ShortOfFrame ==
    \/ userPc = "recv_header" /\ Len(sock[m_activeSocket].inbox) < 4
    \/ userPc = "recv_payload" /\ Len(sock[m_activeSocket].inbox) < userNeed

\* C22: if the stream ends or errors after receive() has read only part of
\* a frame, receive() fails with an error and returns no payload; a
\* payload it does return is never truncated: it has the N bytes the header
\* announced.
C22_NoPartialPayload ==
    [][ReceiveReturns =>
          IF ShortOfFrame
          THEN /\ userResult'.status = "IoError"
               /\ userResult'.payload = <<>>
          ELSE /\ userResult'.status = "ok"
               /\ userPc = "recv_payload" =>
                     /\ Len(userResult'.payload) = userNeed
                     /\ userResult'.payload =
                            SubSeq(sock[m_activeSocket].inbox, 1, userNeed)
               /\ userPc = "recv_header" => userResult'.payload = <<>>]_vars

\* The client has gone while receive() holds part of a frame: some but not
\* all of the header bytes, or the header and not all of the payload.
C22_Witness ==
    /\ userPc \in {"recv_header", "recv_payload"}
    /\ ShortOfFrame
    /\ Len(sock[m_activeSocket].inbox) > 0
    /\ sock[m_activeSocket].peer = "closed"

\* The frames of a sequence of buffers, one after the other.
RECURSIVE Frames(_)
Frames(buffers) ==
    IF buffers = <<>> THEN <<>>
    ELSE Frame(Head(buffers)) \o Frames(Tail(buffers))

\* What the send() calls now writing have still to write.
Unwritten ==
    LET writers == {c \in Callers : callers[c].pc = "send_write"}
    IN IF writers = {} THEN <<>> ELSE callers[CHOOSE c \in writers : TRUE].buf

\* What a receive() now between its two reads has read of its frame.
HeaderRead ==
    IF \E c \in Callers : callers[c].pc = "recv_payload" THEN 4 ELSE 0

\* C23: on one session, the bytes on the stream are the whole frames of the
\* send() calls in the order the calls took the mutex, the last one possibly
\* still being written and never two at once; the payloads receive() has
\* returned are the client's frames in the order the client emitted them,
\* and the successful calls have read exactly the 4 + N bytes of each.
C23_FramesWholeAndInOrder ==
    /\ Cardinality({c \in Callers : callers[c].pc = "send_write"}) <= 1
    /\ wire \o Unwritten = Frames(lockOrder)
    /\ Len(returned) <= Len(emitted)
    /\ returned = SubSeq(emitted, 1, Len(returned))
    /\ consumed = Len(Frames(returned)) + HeaderRead

\* Two callers have sent while another call contended, and two frames of
\* the client have been returned.
C23_Witness ==
    /\ Len(lockOrder) = 2
    /\ lockOrder[1] # lockOrder[2]
    /\ wire = Frames(lockOrder)
    /\ Len(returned) = 1
    /\ returned[1] = <<7>>
    /\ \E c \in Callers : callers[c].pc = "recv_lock"

(***************************************************************************)
(* Properties of the transport: the session slot and its mutex             *)
(***************************************************************************)
\* The caller is inside the part of send() or receive() that runs under
\* std::lock_guard and has a session.
CallerInCritical == userPc \in {"recv_header", "recv_payload", "send_write"}

\* The program reads from, writes to or closes the stream in the session
\* slot in this step.
StreamUsed ==
    /\ m_activeSocket # NoSocket
    /\ LET s == m_activeSocket
       IN \/ Len(sock'[s].inbox) < Len(sock[s].inbox)
          \/ Len(sock'[s].outbox) > Len(sock[s].outbox)
          \/ sock'[s].state # sock[s].state

\* C24: at every instant at most one of send(), receive(), stop()'s
\* teardown and the handshake handler's write of the slot is inside the
\* session critical section: the mutex is owned exactly while the caller is
\* in its critical section, the slot is written only by a party that found
\* the mutex free and runs its whole section before anyone else enters, and
\* the stream in the slot is only used by the owner of the mutex or by such
\* a party.  (The destruction of the object is not one of these parties.)
C24_SlotOnlyUnderMutex ==
    [][/\ (m_socketMutex = "user") <=> CallerInCritical
       /\ lifetime' # "destroyed" =>
             /\ m_activeSocket' # m_activeSocket =>
                    (m_socketMutex = "none" /\ m_socketMutex' = "none")
             /\ StreamUsed =>
                    \/ /\ m_socketMutex = "user" /\ CallerInCritical
                       /\ (userPc' # userPc \/ userBuf' # userBuf)
                    \/ m_socketMutex = "none" /\ m_socketMutex' = "none"]_vars

\* A caller is inside receive() or send() while stop() and a handshake
\* handler both wait for the mutex.
C24_Witness ==
    /\ m_socketMutex = "user"
    /\ appPc = "stop_lock"
    /\ workerPc = "hs_lock"

\* A client is being served: the session slot holds an established stream
\* whose client has not gone.
SessionActive ==
    /\ m_activeSocket # NoSocket
    /\ sock[m_activeSocket].state = "established"
    /\ sock[m_activeSocket].peer # "closed"

\* C25: the server has a single client connection at any instant: while a
\* session is active no accept is outstanding and no other client is
\* connected or in its handshake.
C25_SingleClientConnection ==
    SessionActive =>
        /\ accepts = {}
        /\ \A s \in SockIds \ {m_activeSocket} :
               sock[s].state \notin {"connected", "established"}

\* C26: the worker thread never blocks outside the event loop's wait: a
\* handshake completion handler that has reached its lock_guard finds the
\* session mutex free, whatever the application thread is doing in send()
\* or receive().
C26_WorkerNeverWaitsForMutex == workerPc = "hs_lock" => m_socketMutex = "none"

(***************************************************************************)
(* Properties of the server process                                        *)
(***************************************************************************)
\* A whole frame of the client of the active session has arrived.
FrameArrived ==
    /\ m_activeSocket # NoSocket
    /\ sock[m_activeSocket].state = "established"
    /\ Len(sock[m_activeSocket].inbox) >= 4
    /\ Len(sock[m_activeSocket].inbox)
           >= 4 + decodeBE32(SubSeq(sock[m_activeSocket].inbox, 1, 4))

\* The frame has been read, handed to handleRequest and answered.
FrameServed ==
    /\ dispatch.op = "handleRequest"
    /\ \E s \in SockIds : sock[s].outbox # <<>>

\* C27: every frame a connected client sends on the active session is
\* eventually decoded, passed to the facade's handleRequest and answered
\* with one framed reply on the same connection.
C27_EveryFrameIsAnswered == FrameArrived ~> FrameServed

\* C28: when start() arms the first accept, the four opcodes are registered
\* and the facade is constructed, and from then on no step changes the
\* registry.
C28_RegistryPopulatedBeforeAccept ==
    [][/\ (nStarts' > 0) => (facadeBuilt /\ m_factories = MainRegistry)
       /\ (nStarts > 0) => (m_factories' = m_factories /\ facadeBuilt')]_vars

\* The server is accepting with the populated registry behind the facade.
C28_Witness ==
    /\ accepts # {}
    /\ facadeBuilt
    /\ \A type \in {GET_MARKET_DATA, CALCULATE, MANIPULATE, GENERATE_REPORT} :
           m_factories[type] # NoFactory

\* C29: a signal only sets the shutdown flag and leaves the transport as it
\* is; once the flag is set on a started server, main() stops the transport
\* and returns 0.
C29_SignalLeadsToCleanStop ==
    /\ [][(g_shutdown' # g_shutdown) =>
              (g_shutdown' /\ UNCHANGED <<mainReturn, nonMainVars>>)]_vars
    /\ [](mainReturn = "EXIT_SUCCESS" => g_shutdown /\ ~m_running /\ ~StopInProgress)
    /\ (g_shutdown /\ appResult = "start_ok")
           ~> (mainReturn = "EXIT_SUCCESS" /\ m_ioThread = "joined")

\* The server was stopped by a signal while a client was connected.
C29_Witness ==
    /\ g_shutdown
    /\ mainReturn = "EXIT_SUCCESS"
    /\ nConnects > 0
    /\ lifetime = "destroyed"

\* start() has thrown, or main() has returned the failure status.
StartFailed == appResult = "start_threw" \/ mainReturn = "EXIT_FAILURE"

\* C30: a start() that does not get the acceptor to listen throws; when it
\* has thrown, no accept is armed and no worker thread exists, then or
\* later, and main() returns a non-zero status.
C30_StartFailureExitsNonZero ==
    /\ [][(nStarts' > nStarts /\ acceptor' # "listening")
              => appResult' = "start_threw"]_vars
    /\ [](StartFailed =>
            /\ accepts = {} /\ ready = {} /\ handshakes = {}
            /\ m_ioThread = "none"
            /\ mainReturn # "EXIT_SUCCESS")
    /\ (appResult = "start_threw") ~> (mainReturn = "EXIT_FAILURE")

\* main() has returned the failure status after bind or listen failed.
C30_Witness ==
    /\ mainReturn = "EXIT_FAILURE"
    /\ acceptor = "open"
    /\ nStarts = 1

(***************************************************************************)
(* Properties of the session slot and of the accept loop                   *)
(***************************************************************************)
\* C31: the stream in the session slot is one whose TLS handshake has
\* completed successfully, and the slot only ever takes the stream of the
\* successful handshake completion the worker is handling; send() and
\* receive() use no other stream.
C31_SlotHoldsHandshakedStream ==
    /\ [](m_activeSocket # NoSocket => sock[m_activeSocket].state = "established")
    /\ [][(m_activeSocket' # m_activeSocket /\ m_activeSocket' # NoSocket)
             => /\ wk.kind = "handshake" /\ wk.ec = "ok"
                /\ m_activeSocket' = wk.sock]_vars

\* A caller is reading from the promoted stream while another connection is
\* accepted but not yet handshaked, or has failed its handshake.
C31_Witness ==
    /\ m_activeSocket # NoSocket
    /\ userPc = "recv_header"
    /\ \E s \in SockIds \ {m_activeSocket} : sock[s].state \in {"connected", "failed"}

(***************************************************************************)
(* Further properties of the dispatch pipeline                             *)
(***************************************************************************)
\* create behaves for opcode j on registry after as it did on registry
\* before, whatever the payload and whatever a caller-supplied factory does.
SameCreate(before, after, j) ==
    \A payload \in Payloads : \A userOutcome \in UserFactoryOutcomes :
        Create(after, [type |-> j, payload |-> payload], userOutcome)
            = Create(before, [type |-> j, payload |-> payload], userOutcome)

\* C32: a registerCommand call changes the entry of one opcode k only: for
\* every other opcode j, create behaves after the call exactly as before it
\* (same factory invoked with the request, or still the out_of_range
\* error); and a create or handleRequest call leaves the registry as it is.
C32_RegisterChangesOneEntry ==
    [][/\ (nRegistered' # nRegistered) =>
            \E k \in RequestTypes :
                \A j \in RequestTypes \ {k} :
                    /\ m_factories'[j] = m_factories[j]
                    /\ SameCreate(m_factories, m_factories', j)
       /\ (dispatch'.op \in {"create", "handleRequest"}) =>
            m_factories' = m_factories]_vars

\* A second opcode has just been registered next to an earlier one.
C32_Witness ==
    /\ dispatch.op = "registerCommand"
    /\ nRegistered = 2
    /\ Cardinality({k \in RequestTypes : m_factories[k] # NoFactory}) = 2

\* C33: a handleRequest call for a registered opcode invokes that opcode's
\* factory once, with the request of the call, and no other factory; when
\* the factory produces a command, execute() is called once, on that
\* command, which was made in this call for this request (for the factories
\* of main() it carries the request itself, or the report request made for
\* it), and the service calls are those of that one execution.
C33_OneFactoryOneExecute ==
    (Handled /\ Registered) =>
        /\ dispatch.factoryCalls =
               <<FactoryCall(m_factories[dispatch.request.type], dispatch.request)>>
        /\ dispatch.created.kind = "return" =>
               /\ dispatch.executeCalls = <<dispatch.created.value>>
               /\ \A userOutcome \in UserFactoryOutcomes :
                      m_factories[dispatch.request.type] \in MainFactories =>
                          dispatch.created =
                              InvokeFactory(m_factories[dispatch.request.type],
                                            dispatch.request, userOutcome)
               /\ Len(dispatch.serviceCalls) <= 1
        /\ dispatch.created.kind = "throw" => dispatch.executeCalls = <<>>

\* A request was handled by a factory of main() and its command executed,
\* with a payload, after registrations.
C33_Witness ==
    /\ Handled /\ Registered
    /\ m_factories[dispatch.request.type] = "CalculationFactory"
    /\ dispatch.request.payload # <<>>
    /\ Len(dispatch.executeCalls) = 1
    /\ dispatch.executeCalls[1].arg = dispatch.request

\* The characters of the date strings the program uses, as their codes.
Chars(str) ==
    CASE str = "2026-01-01" -> <<50, 48, 50, 54, 45, 48, 49, 45, 48, 49>>
      [] str = "2026-12-31" -> <<50, 48, 50, 54, 45, 49, 50, 45, 51, 49>>

\* a <= b in the lexicographic order of std::string.
RECURSIVE LexLeq(_, _)
LexLeq(a, b) ==
    IF a = <<>> THEN TRUE
    ELSE IF b = <<>> THEN FALSE
    ELSE IF Head(a) # Head(b) THEN Head(a) < Head(b)
    ELSE LexLeq(Tail(a), Tail(b))

\* C34: every ReportRequest that a handled request passes to the report
\* service has dateFrom <= dateTo in lexicographic order; with the registry
\* of main() a GENERATE_REPORT request passes one, whatever its payload.
C34_ReportDatesOrdered ==
    Handled =>
        /\ \A i \in 1..Len(dispatch.serviceCalls) :
               dispatch.serviceCalls[i].service = "report" =>
                   LexLeq(Chars(dispatch.serviceCalls[i].arg.dateFrom),
                          Chars(dispatch.serviceCalls[i].arg.dateTo))
        /\ (m_factories = MainRegistry /\ dispatch.request.type = GENERATE_REPORT) =>
               /\ Len(dispatch.serviceCalls) = 1
               /\ dispatch.serviceCalls[1].service = "report"

\* A GENERATE_REPORT request with a payload has reached the report service
\* through the registry of main().
C34_Witness ==
    /\ Handled
    /\ m_factories = MainRegistry
    /\ dispatch.request.type = GENERATE_REPORT
    /\ dispatch.request.payload # <<>>
    /\ Len(dispatch.serviceCalls) = 1
    /\ dispatch.serviceCalls[1].arg.dateFrom = "2026-01-01"

\* The handler of a successful handshake writes the session slot in this
\* step.
SuccessHandlerInstalls == workerPc = "hs_lock" /\ workerPc' # "hs_lock"

\* C35: the handler of a successful handshake always goes on to install its
\* stream in the session slot, whatever is there; the stream that was in the
\* slot is closed and destroyed by it; and a send() or receive() works on
\* the stream in the slot only, which does not change under the call.
C35_NewestHandshakeReplacesSession ==
    [][/\ (workerPc = "idle" /\ wk'.kind = "handshake" /\ wk'.ec = "ok")
             => workerPc' = "hs_lock"
       /\ SuccessHandlerInstalls =>
             /\ m_activeSocket' = wk.sock
             /\ sock'[wk.sock] = sock[wk.sock]
             /\ m_activeSocket \in SockIds \ {wk.sock}
                    => sock'[m_activeSocket] = FreeSocket
       /\ (CallerInCritical /\ CallerInCritical')
             => m_activeSocket' = m_activeSocket
       /\ ((userPc' # userPc \/ userBuf' # userBuf) /\ lifetime' # "destroyed")
             => \A s \in SockIds \ {m_activeSocket} : sock'[s] = sock[s]]_vars

\* The handler of the second client's handshake has just installed its
\* stream while a caller is waiting to enter receive().
C35_Witness ==
    /\ workerPc = "hs_check" /\ wk.ec = "ok"
    /\ m_activeSocket = wk.sock
    /\ nConnects = 2
    /\ userPc = "recv_lock"

\* C36: while the listener is running, the outstanding accepts and the TLS
\* handshakes in flight are at most one in all: no accept is outstanding
\* while a handshake is pending.
C36_OneAcceptOrHandshake ==
    m_running => Cardinality(accepts) + Cardinality(handshakes) <= 1

\* A start() has thrown and no stop() has been called since: the flag is
\* set on a transport that does not listen.
FailedStartStands ==
    /\ m_running /\ acceptor # "listening"
    /\ appPc = "idle" /\ lifetime = "alive"

\* C37: a start() that throws leaves the running flag set; from then on the
\* flag is cleared by a stop() only, and until then nothing binds, arms an
\* accept or launches a worker: a later start() returns at once.
C37_FailedStartLeavesFlagSet ==
    [][/\ (nStarts' # nStarts /\ appResult' = "start_threw") =>
             (m_running' /\ FailedStartStands')
       /\ FailedStartStands =>
             /\ ~m_running' => appPc' = "stop_close"
             /\ m_running' =>
                   /\ FailedStartStands'
                   /\ UNCHANGED <<acceptor, accepts, m_ioThread, nStarts>>]_vars

\* start() was called again after a start() that threw at bind or listen,
\* and returned at once.
C37_Witness ==
    /\ FailedStartStands
    /\ acceptor = "open"
    /\ appResult = "start_noop"

\* start() has succeeded on a transport that stop() had stopped before.
Restarted == ioStopped /\ m_running /\ acceptor = "listening"

\* C38: once stop() has released the work guard and stopped the event loop,
\* they stay so; after a later successful start(), with the flag set and the
\* acceptor listening, the worker handles no completion: the new thread is
\* between handlers with the loop stopped, where run() returns, and the only
\* step it ever takes is that return.
C38_NoServiceAfterRestart ==
    /\ [][ioStopped => (ioStopped' /\ ~m_workGuard')]_vars
    /\ [][Restarted =>
             \/ lifetime' = "destroyed"
             \/ /\ workerPc' = "idle" /\ wk' = NoCompletion
                /\ ready \subseteq ready'
                /\ handshakes \subseteq handshakes']_vars
    /\ [](Restarted /\ m_ioThread = "running" => workerPc = "idle" /\ ~Reactor)
    /\ [][(Restarted /\ m_ioThread' # m_ioThread) =>
             (m_ioThread = "running" /\ m_ioThread' = "exited")]_vars

\* The restarted transport is listening with an accept outstanding and its
\* worker has left run().
C38_Witness ==
    /\ Restarted
    /\ nStarts = 2
    /\ accepts # {}
    /\ m_ioThread = "exited"

==============================================================================
